---------------------------- MODULE Spec2Model ----------------------------
(***************************************************************************)
(* A model of src/src/mash.h: the multivariate normal density with its     *)
(* singular-covariance fallback, the conjugate-normal posterior algebra,   *)
(* the likelihood matrix calc_lik, the standard-error object SE and the    *)
(* posterior engines PosteriorMASH, PosteriorASH and MVSERMix.             *)
(*                                                                         *)
(* Numbers.  A double is modelled by an exact extended rational <<n, d>>   *)
(* in lowest terms with d > 0; d = 0 encodes the IEEE specials             *)
(* <<1,0>> = +inf, <<-1,0>> = -inf and <<0,0>> = NaN, with the IEEE rules  *)
(* for them (x/0 = +-inf, 0/0 = NaN, inf - inf = NaN, 0*inf = NaN, every   *)
(* comparison with NaN false).  Rounding is not modelled: the model is the *)
(* code in exact arithmetic.                                               *)
(*                                                                         *)
(* The values of std::erfc are transcendental and are kept exact as        *)
(* symbols: E(t) stands for 0.5 * erfc(sqrt(t / 2)), the upper tail of the *)
(* standard normal distribution at z = sqrt(t), for a finite rational      *)
(* t > 0.  A double that the code builds from such values by additions and *)
(* by multiplications with rationals is the triple <<"erfc", c, terms>>,   *)
(* the number c + the sum over the pairs <<t, k>> of terms of k * E(t),    *)
(* with c finite, the pairs sorted by t, no t twice and every k finite and *)
(* not 0.  A sum without terms is the rational c itself.                   *)
(*                                                                         *)
(* A function of armadillo that throws returns, in place of a matrix, the  *)
(* pair << << >>, what >> of the empty matrix and the exception's text.    *)
(*                                                                         *)
(* Matrices are sequences of rows, cubes are sequences of slices, and the  *)
(* empty matrix (is_empty()) is << >>.                                     *)
(***************************************************************************)
EXTENDS Integers, Sequences, FiniteSets, TLC

VARIABLES
    obj,    \* the engine instance: its inputs, caches and buffers
    call,   \* the arguments and loop locals of the last compute call
    fn      \* the last call of a free function (calc_lik, dmvnorm, ...)

vars == <<obj, call, fn>>

-----------------------------------------------------------------------------
(* Extended rational arithmetic (the model of double)                       *)

Abs(n) == IF n < 0 THEN -n ELSE n

Sgn(n) == IF n > 0 THEN 1 ELSE IF n < 0 THEN -1 ELSE 0

RECURSIVE GCD(_, _)
GCD(a, b) == IF b = 0 THEN a ELSE GCD(b, a % b)

\* n / d divided through by g
Reduce(n, d, g) == IF g = 0 THEN <<0, 0>> ELSE <<n \div g, d \div g>>

\* n / d in lowest terms with a positive denominator: divided through by the
\* greatest common divisor of |n| and |d|, taken with the sign of d
Norm(n, d) ==
    Reduce(n, d, IF d < 0 THEN -GCD(Abs(n), -d) ELSE GCD(Abs(n), d))

Q(n) == <<n, 1>>
Frac(n, d) == Norm(n, d)

NaN == <<0, 0>>
PosInf == <<1, 0>>
NegInf == <<-1, 0>>

IsNaN(a) == Len(a) = 2 /\ a[1] = 0 /\ a[2] = 0
IsFinite(a) == Len(a) = 3 \/ a[2] # 0

\* a + b over the least common denominator, g the GCD of the denominators
QAddBy(a, b, g) ==
    Norm(a[1] * (b[2] \div g) + b[1] * (a[2] \div g), (a[2] \div g) * b[2])

\* the operations on two rationals
RatAdd(a, b) ==
    IF a[2] = 0 /\ b[2] = 0 THEN (IF a = b THEN a ELSE NaN)
    ELSE QAddBy(a, b, GCD(a[2], b[2]))
RatNeg(a) == <<-a[1], a[2]>>
RatMul(a, b) == Norm(a[1] * b[1], a[2] * b[2])

\* a < b by cross-multiplication, g the GCD of the denominators (0 when both
\* sides are infinite)
QLtBy(a, b, g) ==
    IF g = 0 THEN a[1] < b[1]
    ELSE a[1] * (b[2] \div g) < b[1] * (a[2] \div g)

RatIsNaN(a) == a[1] = 0 /\ a[2] = 0
RatLt(a, b) == ~RatIsNaN(a) /\ ~RatIsNaN(b) /\ QLtBy(a, b, GCD(a[2], b[2]))
RatLe(a, b) == RatLt(a, b) \/ (~RatIsNaN(a) /\ ~RatIsNaN(b) /\ a = b)

\* a value the model's numbers cannot represent or order: evaluating it
\* stops the evaluation instead of yielding a number
NoValue(x) == CHOOSE v \in {} : v = x

\* E(t) = 0.5 * erfc(sqrt(t / 2)) for a finite t > 0
ErfcTerm(t) == <<"erfc", Q(0), << <<t, Q(1)>> >> >>

ErfcConst(a) == IF Len(a) = 3 THEN a[2] ELSE a
ErfcTerms(a) == IF Len(a) = 3 THEN a[3] ELSE << >>

\* c + the sum of terms
ErfcSum(c, terms) ==
    IF Len(terms) = 0 \/ c[2] = 0 THEN c ELSE <<"erfc", c, terms>>

\* the terms of the sum of two sums: merged in the order of t, the factors
\* of a common t added, a term whose factor becomes 0 dropped
RECURSIVE ErfcMerge(_, _)
ErfcMerge(s, t) ==
    IF Len(s) = 0 THEN t
    ELSE IF Len(t) = 0 THEN s
    ELSE IF s[1][1] = t[1][1]
    THEN (IF RatAdd(s[1][2], t[1][2]) = Q(0)
          THEN ErfcMerge(Tail(s), Tail(t))
          ELSE << <<s[1][1], RatAdd(s[1][2], t[1][2])>> >>
               \o ErfcMerge(Tail(s), Tail(t)))
    ELSE IF RatLt(s[1][1], t[1][1]) THEN <<s[1]>> \o ErfcMerge(Tail(s), t)
    ELSE <<t[1]>> \o ErfcMerge(s, Tail(t))

\* r * f for a finite rational r # 0 and a sum f with terms
ErfcScale(r, f) ==
    <<"erfc", RatMul(r, f[2]),
      [i \in 1..Len(f[3]) |-> <<f[3][i][1], RatMul(r, f[3][i][2])>>] \o << >> >>

\* half the sum of the factors of the given sign
RECURSIVE ErfcHalfSum(_, _)
ErfcHalfSum(terms, sgn) ==
    IF Len(terms) = 0 THEN Q(0)
    ELSE RatAdd(IF Sgn(terms[1][2][1]) = sgn
                THEN RatMul(terms[1][2], <<1, 2>>) ELSE Q(0),
                ErfcHalfSum(Tail(terms), sgn))

\* bounds of a sum f with terms, from 0 < E(t) < 1/2: ErfcLo(f) < f < ErfcHi(f)
ErfcLo(f) == RatAdd(f[2], ErfcHalfSum(f[3], -1))
ErfcHi(f) == RatAdd(f[2], ErfcHalfSum(f[3], 1))

\* the sign of a sum f with terms: from its bounds, or for
\* f = k * (E(t1) - E(t2)) with t1 < t2 from E decreasing strictly
ErfcSign(f) ==
    IF RatLe(Q(0), ErfcLo(f)) THEN 1
    ELSE IF RatLe(ErfcHi(f), Q(0)) THEN -1
    ELSE IF f[2] = Q(0) /\ Len(f[3]) = 2 /\ f[3][1][2] = RatNeg(f[3][2][2])
    THEN Sgn(f[3][1][2][1])
    ELSE NoValue(f)

\* a + b when a or b is a sum with terms
ErfcAdd(a, b) ==
    IF Len(a) = 2 /\ a[2] = 0 THEN a
    ELSE IF Len(b) = 2 /\ b[2] = 0 THEN b
    ELSE ErfcSum(RatAdd(ErfcConst(a), ErfcConst(b)),
                 ErfcMerge(ErfcTerms(a), ErfcTerms(b)))

\* r * f for a rational r and a sum f with terms
ErfcTimes(r, f) ==
    IF RatIsNaN(r) THEN NaN
    ELSE IF r[2] = 0 THEN (IF ErfcSign(f) = 1 THEN r ELSE RatNeg(r))
    ELSE IF r[1] = 0 THEN Q(0)
    ELSE ErfcScale(r, f)

\* a * b when a or b is a sum with terms
ErfcMul(a, b) ==
    IF Len(a) = 2 THEN ErfcTimes(a, b)
    ELSE IF Len(b) = 2 THEN ErfcTimes(b, a)
    ELSE NoValue(<<a, b>>)

\* the arithmetic of double
QAdd(a, b) == IF Len(a) = 2 /\ Len(b) = 2 THEN RatAdd(a, b) ELSE ErfcAdd(a, b)
QNeg(a) == IF Len(a) = 2 THEN RatNeg(a) ELSE ErfcScale(Q(-1), a)
QSub(a, b) == QAdd(a, QNeg(b))
QMul(a, b) == IF Len(a) = 2 /\ Len(b) = 2 THEN RatMul(a, b) ELSE ErfcMul(a, b)
QInv(a) == Norm(a[2], a[1])
QDiv(a, b) == QMul(a, QInv(b))
QAbs(a) == <<Abs(a[1]), a[2]>>
QSq(a) == QMul(a, a)

\* IEEE comparisons: false as soon as one side is NaN
QEq(a, b) == ~IsNaN(a) /\ ~IsNaN(b) /\ a = b

\* a < b when a or b is a sum with terms: the sign of b - a
ErfcLt(a, b) ==
    /\ ~IsNaN(a) /\ ~IsNaN(b)
    /\ IF Len(QSub(b, a)) = 2 THEN RatLt(Q(0), QSub(b, a))
       ELSE ErfcSign(QSub(b, a)) = 1

QLt(a, b) == IF Len(a) = 2 /\ Len(b) = 2 THEN RatLt(a, b) ELSE ErfcLt(a, b)
QLe(a, b) == QLt(a, b) \/ QEq(a, b)
QSign(a) == Sgn(a[1])

-----------------------------------------------------------------------------
(* Vectors, matrices and cubes (arma::vec, arma::mat, arma::cube)           *)

\* a sequence given as a function on 1..n, as the tuple of its values
Vec(f) == f \o << >>

n_rows(M) == Len(M)
n_cols(M) == IF Len(M) = 0 THEN 0 ELSE Len(M[1])
n_slices(C) == Len(C)
is_empty(M) == Len(M) = 0

RECURSIVE SumSeq(_)
SumSeq(s) == IF Len(s) = 0 THEN Q(0) ELSE QAdd(s[1], SumSeq(Tail(s)))

Fill(r, c, v) == Vec([i \in 1..r |-> Vec([j \in 1..c |-> v])])
Zeros(r, c) == Fill(r, c, Q(0))
Ones(r, c) == Fill(r, c, Q(1))
ZerosCube(r, c, s) == Vec([k \in 1..s |-> Zeros(r, c)])

Col(M, j) == Vec([i \in 1..n_rows(M) |-> M[i][j]])
Row(M, i) == M[i]
Diag(M) == Vec([i \in 1..n_rows(M) |-> M[i][i]])
Trans(M) == Vec([j \in 1..n_cols(M) |-> Vec([i \in 1..n_rows(M) |-> M[i][j]])])

VDot(u, v) == SumSeq(Vec([i \in 1..Len(u) |-> QMul(u[i], v[i])]))
VSchur(u, v) == Vec([i \in 1..Len(u) |-> QMul(u[i], v[i])])
VAdd(u, v) == Vec([i \in 1..Len(u) |-> QAdd(u[i], v[i])])
VSub(u, v) == Vec([i \in 1..Len(u) |-> QSub(u[i], v[i])])
VSq(u) == Vec([i \in 1..Len(u) |-> QSq(u[i])])

MatMul(A, B) ==
    Vec([i \in 1..n_rows(A) |-> Vec([j \in 1..n_cols(B) |-> VDot(A[i], Col(B, j))])])
MatVec(A, v) == Vec([i \in 1..n_rows(A) |-> VDot(A[i], v)])
MatAdd(A, B) ==
    Vec([i \in 1..n_rows(A) |-> Vec([j \in 1..n_cols(A) |-> QAdd(A[i][j], B[i][j])])])
MatSub(A, B) ==
    Vec([i \in 1..n_rows(A) |-> Vec([j \in 1..n_cols(A) |-> QSub(A[i][j], B[i][j])])])
MatSchur(A, B) ==
    Vec([i \in 1..n_rows(A) |-> Vec([j \in 1..n_cols(A) |-> QMul(A[i][j], B[i][j])])])
MatScale(c, A) ==
    Vec([i \in 1..n_rows(A) |-> Vec([j \in 1..n_cols(A) |-> QMul(c, A[i][j])])])
MatSq(A) == MatSchur(A, A)
Outer(u, v) == Vec([i \in 1..Len(u) |-> Vec([j \in 1..Len(v) |-> QMul(u[i], v[j])])])
Identity(n) == Vec([i \in 1..n |-> Vec([j \in 1..n |-> IF i = j THEN Q(1) ELSE Q(0)])])

\* (M.each_col() % s).each_row() % s.t(): entry (i,j) is s[i] * M[i][j] * s[j]
ScaleBoth(M, s) ==
    Vec([i \in 1..n_rows(M) |->
        Vec([j \in 1..n_cols(M) |-> QMul(QMul(M[i][j], s[i]), s[j])])])

\* the matrix without row i and column j
Minor(M, i, j) ==
    Vec([a \in 1..(n_rows(M) - 1) |->
        Vec([b \in 1..(n_cols(M) - 1) |->
            M[IF a < i THEN a ELSE a + 1][IF b < j THEN b ELSE b + 1]])])

RECURSIVE Det(_)
Det(M) ==
    IF n_rows(M) = 0 THEN Q(1)
    ELSE IF n_rows(M) = 1 THEN M[1][1]
    ELSE SumSeq(Vec([j \in 1..n_cols(M) |->
                    QMul(IF j % 2 = 1 THEN M[1][j] ELSE QNeg(M[1][j]),
                         Det(Minor(M, 1, j)))]))

\* the (i, j) cofactor of M
Cofactor(M, i, j) ==
    QMul(IF (i + j) % 2 = 0 THEN Q(1) ELSE Q(-1), Det(Minor(M, i, j)))

\* the adjugate of M divided by d
AdjugateOver(M, d) ==
    Vec([i \in 1..n_rows(M) |->
        Vec([j \in 1..n_cols(M) |-> QDiv(Cofactor(M, j, i), d)])])

\* the std::runtime_error a function of armadillo throws, in place of the
\* matrix it would return
Throw(what) == << << >>, what >>
IsThrow(M) == Len(M) = 2 /\ Len(M[1]) = 0

\* M.i(), arma::inv: the inverse, in exact arithmetic adj(M) / det(M), and
\* an exception when M is singular
Inv(M) ==
    IF QEq(Det(M), Q(0)) THEN Throw("inv(): matrix is singular")
    ELSE AdjugateOver(M, Det(M))

LeadingBlock(M, k) == Vec([i \in 1..k |-> Vec([j \in 1..k |-> M[i][j]])])

\* the symmetric matrix with the upper triangle of M, and the one with the
\* lower triangle of M
SymmatU(M) ==
    Vec([i \in 1..n_rows(M) |->
        Vec([j \in 1..n_cols(M) |-> IF i <= j THEN M[i][j] ELSE M[j][i]])])
SymmatL(M) ==
    Vec([i \in 1..n_rows(M) |->
        Vec([j \in 1..n_cols(M) |-> IF i >= j THEN M[i][j] ELSE M[j][i]])])

\* the symmetric matrix M is positive definite: every leading principal
\* minor is positive (the pivots of the Cholesky factorisation)
PosDef(M) ==
    \A k \in 1..n_rows(M) : QLt(Q(0), Det(LeadingBlock(M, k)))

\* arma::chol reads the upper triangle of M only, and succeeds exactly when
\* the symmetric matrix with that triangle is positive definite
CholOk(M) == PosDef(SymmatU(M))

-----------------------------------------------------------------------------
(* Square roots and the normal distribution function                        *)

\* arma::sqrt / std::sqrt of x, kept exact as the radicand: the value is the
\* non-negative root of sqrt_of, and NaN when sqrt_of is negative or NaN
Sqrt(x) == [sqrt_of |-> x]
SqrtIsNaN(s) == IsNaN(s.sqrt_of) \/ QLt(s.sqrt_of, Q(0))
\* s == 0 as the code tests it
SqrtIsZero(s) == QEq(s.sqrt_of, Q(0))
VSqrt(v) == Vec([i \in 1..Len(v) |-> Sqrt(v[i])])

\* 0.5 * erfc(z / sqrt(2)) at z >= 0, given z^2: the upper tail of the
\* standard normal distribution, 1/2 at z = 0 and 0 at z = +inf
UpperTail(z2) ==
    IF ~IsFinite(z2) THEN Q(0)
    ELSE IF z2[1] = 0 THEN Frac(1, 2)
    ELSE ErfcTerm(z2)

\* the reflection erfc(-x) = 2 - erfc(x) of erfc itself, not of its half
ErfcReflect_whole(sgn, upper) == IF sgn >= 0 THEN upper ELSE QSub(Q(2), upper)
\* the upper tail at |z|, reflected for a negative z
ErfcReflect(sgn, upper) == IF sgn >= 0 THEN upper ELSE QSub(Q(1), upper)

\* 0.5 * arma::erfc(z * M_SQRT1_2) for z = <<sign, square>>
HalfErfc(z) ==
    IF IsNaN(z[2]) THEN NaN
    ELSE ErfcReflect(z[1], UpperTail(z[2]))

\* d / s for a standard deviation s = Sqrt(..), as the pair
\* <<sign, square of d / s>>
ZScoreOf(d, s) ==
    IF SqrtIsNaN(s) THEN <<0, NaN>>
    ELSE <<QSign(d), QDiv(QSq(d), s.sqrt_of)>>

\* (x - m) / s * M_SQRT1_2
ZScore(x, m, s) == ZScoreOf(QSub(x, m), s)

Log(x) == [log_of |-> x]

\* the four returns of pnorm, res = 0.5 * arma::erfc(...)
pnorm_return(res, logd, lower_tail) ==
    IF ~lower_tail /\ ~logd THEN QSub(Q(1), res)
    ELSE IF lower_tail /\ ~logd THEN res
    ELSE IF ~lower_tail /\ logd THEN Log(QSub(Q(1), res))
    ELSE Log(res)

pnorm1(x, m, s, logd, lower_tail) ==
    pnorm_return(HalfErfc(ZScore(x, m, s)), logd, lower_tail)

\* pnorm on vectors (elementwise), with the defaults logd = false and
\* lower_tail = true of the engines' calls
pnorm(x, m, s) ==
    Vec([i \in 1..Len(x) |-> pnorm1(x[i], m[i], s[i], FALSE, TRUE)])

-----------------------------------------------------------------------------
(* The multivariate normal density                                          *)

\* the threshold 1e-6 of the point-mass fallback, as 1 / TolDenominator
TolDenominator == 1000000

AccuAbs(v) == SumSeq(Vec([i \in 1..Len(v) |-> QAbs(v[i])]))

RECURSIVE ProdSeq(_)
ProdSeq(s) == IF Len(s) = 0 THEN Q(1) ELSE QMul(s[1], ProdSeq(Tail(s)))

\* The value constants - 0.5 * sum(z % z) + rootisum of the normal branch
\* (exponentiated unless logd), kept exact as its three ingredients: the
\* dimension (constants = -(dim / 2) * LOG_2PI), quad = sum(z % z) and
\* rooti_det2 = exp(2 * rootisum), the squared product of rooti's diagonal.
Gauss(dim, quad, rooti_det2, logd) ==
    [dim |-> dim, quad |-> quad, rooti_det2 |-> rooti_det2, logd |-> logd]

\* the normal branch from z = rooti * (x - mean) and rooti.diag(): the log
\* of a negative diagonal entry is NaN, of a zero one -inf
GaussOf(z, diag, logd) ==
    IF \E i \in 1..Len(diag) : ~QLe(Q(0), diag[i]) THEN NaN
    ELSE IF \E i \in 1..Len(diag) : QEq(diag[i], Q(0))
    THEN (IF logd THEN NegInf ELSE Q(0))
    ELSE Gauss(Len(z), VDot(z, z), QSq(ProdSeq(diag)), logd)

\* the normal branch with rooti given (inversed), d = x - mean
GaussRooti(d, rooti, logd) == GaussOf(MatVec(rooti, d), Diag(rooti), logd)

\* the normal branch with rooti = trans(inv(trimatu(chol(sigma)))), for the
\* symmetric positive definite S that chol factorises: rooti' * rooti is
\* the inverse of S, so sum(z % z) = d' * inv(S) * d, and the product of
\* rooti's diagonal is 1 / sqrt(det(S))
GaussCholOf(d, S, logd) ==
    Gauss(Len(d), VDot(d, MatVec(AdjugateOver(S, Det(S)), d)), QInv(Det(S)),
          logd)

\* chol factorises the symmetric matrix with the upper triangle of sigma
GaussChol(d, sigma, logd) == GaussCholOf(d, SymmatU(sigma), logd)

\* a test that takes the distance 1e-6 itself for near
NearMean_inclusive(diff) == QLe(diff, Frac(1, TolDenominator))
\* the test accu(abs(x - mean)) < 1e-6 of the catch branch
NearMean(diff) == QLt(diff, Frac(1, TolDenominator))

\* dmvnorm from d = x - mean
dmvnorm_at(d, sigma, logd, inversed) ==
    IF inversed THEN GaussRooti(d, sigma, logd)
    ELSE IF ~CholOk(sigma)
    THEN (IF logd THEN (IF NearMean(AccuAbs(d)) THEN PosInf ELSE NegInf)
                  ELSE (IF NearMean(AccuAbs(d)) THEN PosInf ELSE Q(0)))
    ELSE GaussChol(d, sigma, logd)

\* dmvnorm(x, mean, sigma, logd, inversed)
dmvnorm(x, mean, sigma, logd, inversed) ==
    dmvnorm_at(VSub(x, mean), sigma, logd, inversed)

\* dmvnorm_mat(x, mean, sigma, logd, inversed): one value per column of x
dmvnorm_mat(x, mean, sigma, logd, inversed) ==
    IF ~inversed /\ ~CholOk(sigma)
    THEN Vec([i \in 1..n_cols(x) |->
             IF NearMean(AccuAbs(VSub(Col(x, i), mean))) THEN PosInf
             ELSE IF logd THEN NegInf ELSE Q(0)])
    ELSE Vec([i \in 1..n_cols(x) |->
            IF inversed THEN GaussRooti(VSub(Col(x, i), mean), sigma, logd)
            ELSE GaussChol(VSub(Col(x, i), mean), sigma, logd)])

-----------------------------------------------------------------------------
(* Covariance scaling and the conjugate-normal update                       *)

get_cov(s, V, L) ==
    IF is_empty(L) THEN ScaleBoth(V, s)
    ELSE MatMul(MatMul(L, ScaleBoth(V, s)), Trans(L))

get_cov2(s, V) == ScaleBoth(V, s)

\* arma::inv_sympd of the symmetric matrix S
inv_sympd_of(S) ==
    IF PosDef(S) THEN AdjugateOver(S, Det(S))
    ELSE Throw("inv_sympd(): matrix is singular or not positive definite")

\* arma::inv_sympd: the inverse of a symmetric positive definite matrix, of
\* which it reads the lower triangle only, and an exception when that
\* matrix is singular or not positive definite
inv_sympd(M) == inv_sympd_of(SymmatL(M))

\* the prior covariance, not updated by the data
get_posterior_cov_prior(Vinv, U) == U
\* U * S.i(), from Si = S.i(): the exception of S.i() leaves the function
get_posterior_cov_of(U, Si) == IF IsThrow(Si) THEN Si ELSE MatMul(U, Si)

get_posterior_cov(Vinv, U) ==
    get_posterior_cov_of(U, Inv(MatAdd(MatMul(Vinv, U), Identity(n_rows(U)))))

get_posterior_mean(bhat, Vinv, U1) == MatVec(MatMul(U1, Vinv), bhat)

get_posterior_mean_mat(bhat, Vinv, U1) == MatMul(MatMul(U1, Vinv), bhat)

ZeroVec(n) == Vec([r \in 1..n |-> Q(0)])

-----------------------------------------------------------------------------
(* calc_lik: the J x P matrix of likelihoods                                *)

\* the common_cov branch without logd handed on: dmvnorm_mat's default
calc_lik_common_density(b_mat, sigma, U_cube, logd) ==
    Trans(Vec([p \in 1..n_slices(U_cube) |->
        dmvnorm_mat(b_mat, ZeroVec(n_rows(b_mat)), MatAdd(sigma, U_cube[p]),
                    FALSE, FALSE)]))
\* the common_cov branch: column p is dmvnorm_mat under sigma + U_cube[p]
calc_lik_common(b_mat, sigma, U_cube, logd) ==
    Trans(Vec([p \in 1..n_slices(U_cube) |->
        dmvnorm_mat(b_mat, ZeroVec(n_rows(b_mat)), MatAdd(sigma, U_cube[p]),
                    logd, FALSE)]))

\* the general branch: row j under the covariance of effect j
calc_lik_row(b, sigma, U_cube, logd) ==
    Vec([p \in 1..n_slices(U_cube) |->
        dmvnorm(b, ZeroVec(Len(b)), MatAdd(sigma, U_cube[p]), logd, FALSE)])

\* calc_lik(b_mat, s_mat, v_mat, l_mat, U_cube, logd, common_cov)
calc_lik(b_mat, s_mat, v_mat, l_mat, U_cube, logd, common_cov) ==
    IF common_cov
    THEN calc_lik_common(b_mat, get_cov(Col(s_mat, 1), v_mat, l_mat),
                         U_cube, logd)
    ELSE Vec([j \in 1..n_cols(b_mat) |->
            calc_lik_row(Col(b_mat, j), get_cov(Col(s_mat, j), v_mat, l_mat),
                         U_cube, logd)])

\* whether dmvnorm and dmvnorm_mat factorise sigma with arma::chol: only
\* when sigma is not given as rooti
Factorises(inversed) == ~inversed

\* a counter that stays on the slice it read
NextSlice_stay(k) == k
\* k += 1
NextSlice(k) == k + 1

\* the loop over p of the general branch for the effect b, from the pass p
\* (from 0): acc holds the row of lik so far, the counter k, the slice
\* indices read and the number of factorisations
RECURSIVE calc_lik_rooti_row(_, _, _, _, _, _)
calc_lik_rooti_row(b, rooti_cube, logd, P, p, acc) ==
    IF p >= P THEN acc
    ELSE calc_lik_rooti_row(b, rooti_cube, logd, P, p + 1,
            [row   |-> Append(acc.row,
                              dmvnorm(b, ZeroVec(Len(b)),
                                      rooti_cube[acc.k + 1], logd, TRUE)),
             k     |-> NextSlice(acc.k),
             reads |-> Append(acc.reads, acc.k),
             chol  |-> acc.chol + (IF Factorises(TRUE) THEN 1 ELSE 0)])

\* the loop over j of the general branch, from the pass j (from 0)
RECURSIVE calc_lik_rooti_rows(_, _, _, _, _, _)
calc_lik_rooti_rows(b_mat, rooti_cube, logd, P, j, acc) ==
    IF j >= n_cols(b_mat) THEN acc
    ELSE calc_lik_rooti_rows(b_mat, rooti_cube, logd, P, j + 1,
            LET r == calc_lik_rooti_row(Col(b_mat, j + 1), rooti_cube, logd,
                                        P, 0,
                                        [row |-> << >>, k |-> acc.k,
                                         reads |-> acc.reads,
                                         chol |-> acc.chol])
            IN  [lik |-> Append(acc.lik, r.row), k |-> r.k,
                 reads |-> r.reads, chol |-> r.chol])

\* the common_cov branch: column p is dmvnorm_mat with the rooti of slice p
calc_lik_rooti_common(b_mat, rooti_cube, logd, P) ==
    [lik   |-> Vec([j \in 1..n_cols(b_mat) |-> Vec([p \in 1..P |->
                  dmvnorm_mat(b_mat, ZeroVec(n_rows(b_mat)), rooti_cube[p],
                              logd, TRUE)[j]])]),
     k     |-> 0,
     reads |-> Vec([p \in 1..P |-> p - 1]),
     chol  |-> IF Factorises(TRUE) THEN P ELSE 0]

\* int P of the rooti overload
calc_lik_rooti_P(b_mat, rooti_cube, common_cov) ==
    IF common_cov THEN n_slices(rooti_cube)
    ELSE n_slices(rooti_cube) \div n_cols(b_mat)

\* calc_lik(b_mat, rooti_cube, logd, common_cov): the J x P matrix lik, with
\* the slice indices read (from 0, in the order read) and the number of
\* Cholesky factorisations made
calc_lik_rooti(b_mat, rooti_cube, logd, common_cov) ==
    IF common_cov
    THEN calc_lik_rooti_common(b_mat, rooti_cube, logd,
             calc_lik_rooti_P(b_mat, rooti_cube, common_cov))
    ELSE calc_lik_rooti_rows(b_mat, rooti_cube, logd,
             calc_lik_rooti_P(b_mat, rooti_cube, common_cov), 0,
             [lik |-> << >>, k |-> 0, reads |-> << >>, chol |-> 0])

-----------------------------------------------------------------------------
(* Exceptions that leave a compute call                                     *)

\* what a compute call hands back: the engine after it and the locals of
\* the passes of its loops that ran, per effect, with the text of the
\* exception that left it ("" when the call returned)
Returns(res) == [o |-> res.o, comps |-> res.comps, what |-> ""]
Throws(o, comps, what) == [o |-> o, comps |-> comps, what |-> what]

\* the matrices a pass j of the loop over the effects inverts, in the order
\* of the code: Vinv_j, then U0 for p = 1, 2, ...; nothing after Vinv_j when
\* its computation throws
InversesOf(Vinv_j, U0s) ==
    IF IsThrow(Vinv_j) THEN <<Vinv_j>> ELSE <<Vinv_j>> \o U0s

\* the places <<j, k>> of the table of inverses that hold an exception
ThrowPoints(table) ==
    {jk \in UNION {{<<j, k>> : k \in 1..Len(table[j])} : j \in 1..Len(table)} :
        IsThrow(table[jk[1]][jk[2]])}

\* the first of the places pts in the order of the loops
FirstOf(pts) ==
    CHOOSE a \in pts :
        \A b \in pts : a[1] < b[1] \/ (a[1] = b[1] /\ a[2] <= b[2])

\* the first exception of a call that inverts the matrices of table, as
\* <<j, p, what>>: the pass p of the loop over the components in the pass j
\* of the loop over the effects, p = 0 for the computation of Vinv_j before
\* the loop over p, and what the text; <<0, 0, "">> when nothing is thrown
ThrowOf(table) ==
    LET pts == ThrowPoints(table)
    IN  IF pts = {} THEN <<0, 0, "">>
        ELSE LET at == FirstOf(pts)
             IN  <<at[1], at[2] - 1, table[at[1]][at[2]][2]>>

\* the number of passes of the loop over the P components that ran for
\* effect j before the exception of the pass (at[1], at[2]) of the loops
\* over j and p: every pass of the effects before at[1], the passes before
\* at[2] of the effect at[1] (none when the exception is that of Vinv_j,
\* at[2] = 0), none of the later effects
PassesBefore(j, P, at) ==
    IF j < at[1] THEN P
    ELSE IF j = at[1] /\ at[2] > 0 THEN at[2] - 1
    ELSE 0

\* the locals c[p][j] of the passes of a loop over p that handles the J
\* effects together, per effect
ByEffect(c, J) == Vec([j \in 1..J |-> Vec([p \in 1..Len(c) |-> c[p][j]])])

\* the matrix M with its first columns replaced by the columns eff[j][f]
ColumnsTo(M, eff, f) ==
    Vec([r \in 1..n_rows(M) |->
        Vec([j \in 1..n_cols(M) |->
            IF j <= Len(eff) THEN eff[j][f][r] ELSE M[r][j]])])

\* the buffers when the pass after the passes eff of the loop over the
\* effects threw: the columns and slices of the passes eff as these left
\* them (post_var without the subtraction that follows the loop), slice the
\* slice of the pass that threw, the rest as before the call
StoreTo(o, eff, slice) ==
    [o EXCEPT
       !.post_mean = ColumnsTo(o.post_mean, eff, "post_mean"),
       !.post_var  = ColumnsTo(o.post_var, eff, "post_var"),
       !.neg_prob  = ColumnsTo(o.neg_prob, eff, "neg_prob"),
       !.zero_prob = ColumnsTo(o.zero_prob, eff, "zero_prob"),
       !.post_cov  = Vec([j \in 1..Len(o.post_cov) |->
                         IF j <= Len(eff) THEN eff[j].post_cov
                         ELSE IF j = Len(eff) + 1 THEN slice
                         ELSE o.post_cov[j]])]

-----------------------------------------------------------------------------
(* class SE                                                                 *)

\* SE::set(const arma::mat & sbhat, const arma::mat & sbhat_alpha)
SE_set(se, sbhat, sbhat_alpha) ==
    [se EXCEPT !.s = sbhat,
               !.s_alpha = IF is_empty(sbhat_alpha)
                           THEN Ones(n_rows(sbhat), n_cols(sbhat))
                           ELSE sbhat_alpha]

\* SE::set(int J, int R): s.ones(J, R), s_alpha.ones(J, R)
SE_set_dims(se, J, R) ==
    [se EXCEPT !.s = Ones(J, R), !.s_alpha = Ones(J, R)]

SE_set_original(se, value) ==
    [se EXCEPT !.s_orig = value, !.is_orig_empty = is_empty(value)]

\* an accessor that returns s whether or not s_orig was set
SE_get_original_s(se) == se.s
SE_get_original(se) == IF se.is_orig_empty THEN se.s ELSE se.s_orig

SE_get(se) == se.s_alpha

\* SE(): empty matrices; is_orig_empty is not initialised and holds whatever
\* the storage of the object holds (uninitialised), until set_original
\* assigns it
SE_new(uninitialised) ==
    [s |-> << >>, s_orig |-> << >>, s_alpha |-> << >>,
     is_orig_empty |-> uninitialised]

-----------------------------------------------------------------------------
(* class PosteriorMASH                                                      *)

\* PosteriorMASH::PosteriorMASH: the SE object, whose flag holds
\* uninitialised until set_original, then the output buffers sized R x J
\* (Q x J with an embedding a_mat of Q rows) and zeroed
PosteriorMASH_new(b_mat, s_mat, s_alpha_mat, s_orig_mat, v_mat, l_mat, a_mat, U_cube, uninitialised) ==
    LET J  == n_cols(b_mat)
        R0 == n_rows(b_mat)
        se == IF is_empty(s_mat)
              THEN SE_set_dims(SE_new(uninitialised), R0, J)
              ELSE SE_set(SE_new(uninitialised), s_mat, s_alpha_mat)
        R  == IF ~is_empty(a_mat) THEN n_rows(a_mat) ELSE R0
    IN  [class     |-> "PosteriorMASH",
         b_mat     |-> b_mat,
         s_obj     |-> SE_set_original(se, s_orig_mat),
         v_mat     |-> v_mat,
         l_mat     |-> l_mat,
         a_mat     |-> a_mat,
         U_cube    |-> U_cube,
         Vinv_cube |-> << >>,
         U0_cube   |-> << >>,
         post_mean |-> Zeros(R, J),
         post_var  |-> Zeros(R, J),
         post_cov  |-> ZerosCube(R, R, J),
         neg_prob  |-> Zeros(R, J),
         zero_prob |-> Zeros(R, J)]

\* a gate that lets every report type from 2 on accumulate post_cov
AccumulatesCov_from2(report_type) == report_type >= 2
\* the report types that accumulate post_cov (report_type == 2 || == 4)
AccumulatesCov(report_type) == report_type = 2 \/ report_type = 4

\* a zero probability that marks no row
ZeroOf_unmarked(sigma) == Vec([r \in 1..Len(sigma) |-> Q(0)])
\* the rows r with sigma.at(r) == 0 get zero probability 1 and negative
\* probability 0
ZeroOf(sigma) ==
    Vec([r \in 1..Len(sigma) |-> IF SqrtIsZero(sigma[r]) THEN Q(1) ELSE Q(0)])
NegOf(neg, sigma) ==
    Vec([r \in 1..Len(sigma) |-> IF SqrtIsZero(sigma[r]) THEN Q(0) ELSE neg[r]])

\* the two branches of a_mat.is_empty(): mu1_mat.col(p) and U1 from
\* m0 = get_posterior_mean(..) % s_obj.get().col(j) and U0s, the scaled U0
MASH_embed(a_mat, m0, U0s) ==
    IF is_empty(a_mat) THEN [mu1 |-> m0, U1 |-> U0s]
    ELSE [mu1 |-> MatVec(a_mat, m0),
          U1  |-> MatMul(a_mat, MatMul(U0s, Trans(a_mat)))]

\* column p of diag_mu2_mat, neg_mat and zero_mat, from e = [mu1, U1]
MASH_columns(e, mean) ==
    [mu1      |-> e.mu1,
     U1       |-> e.U1,
     diag_mu2 |-> VAdd(VSq(e.mu1), Diag(e.U1)),
     neg      |-> NegOf(pnorm(e.mu1, mean, VSqrt(Diag(e.U1))),
                        VSqrt(Diag(e.U1))),
     zero     |-> ZeroOf(VSqrt(Diag(e.U1)))]

\* mu1_mat.col(p) and U1 of effect j from U0
MASH_scaled(o, j, Vinv_j, U0) ==
    MASH_embed(o.a_mat,
               VSchur(get_posterior_mean(Col(o.b_mat, j), Vinv_j, U0),
                      Col(SE_get(o.s_obj), j)),
               ScaleBoth(U0, Col(SE_get(o.s_obj), j)))

MASH_U0(o, j, p, Vinv_j) ==
    IF is_empty(o.U0_cube) THEN get_posterior_cov(Vinv_j, o.U_cube[p])
    ELSE o.U0_cube[(j - 1) * n_slices(o.U_cube) + p]

\* the body of the loop over p in compute_posterior, for effect j (1-based):
\* the locals of component p
MASH_component(o, j, p, Vinv_j) ==
    MASH_columns(MASH_scaled(o, j, Vinv_j, MASH_U0(o, j, p, Vinv_j)),
                 ZeroVec(n_rows(o.post_mean)))

MASH_Vinv(o, j) ==
    IF is_empty(o.Vinv_cube)
    THEN inv_sympd(get_cov(Col(SE_get_original(o.s_obj), j), o.v_mat, o.l_mat))
    ELSE o.Vinv_cube[j]

\* the locals of the passes p = 1..n of the loop over p, for effect j
MASH_passes(o, j, n) ==
    LET Vinv_j == MASH_Vinv(o, j)
    IN  Vec([p \in 1..n |-> MASH_component(o, j, p, Vinv_j)])

\* the locals of every pass of the loops over j and p
MASH_components(o) ==
    Vec([j \in 1..n_cols(o.post_mean) |->
        MASH_passes(o, j, n_slices(o.U_cube))])

\* the matrices compute_posterior inverts or reads from its caches: Vinv_j
\* and the matrices U0 of every pass j
MASH_inverses(o) ==
    Vec([j \in 1..n_cols(o.post_mean) |->
        LET Vinv_j == MASH_Vinv(o, j)
        IN  InversesOf(Vinv_j,
                IF IsThrow(Vinv_j) THEN << >>
                ELSE Vec([p \in 1..n_slices(o.U_cube) |->
                         MASH_U0(o, j, p, Vinv_j)]))])

\* w * (U1 + mu1 * mu1'), the second moment of a component weighted
WeightedMu2(w, c) == MatScale(w, MatAdd(c.U1, Outer(c.mu1, c.mu1)))

\* slice += w[p] * (U1_p + mu1_p * mu1_p') for p, p + 1, ...
RECURSIVE AccumulateCov(_, _, _, _)
AccumulateCov(slice, comps, w, p) ==
    IF p > Len(comps) THEN slice
    ELSE AccumulateCov(MatAdd(slice, WeightedMu2(w[p], comps[p])),
                       comps, w, p + 1)

\* M * w for the R x P matrix whose column p is comps[p][f]
WeightedSum(comps, f, w, R) ==
    Vec([r \in 1..R |->
        SumSeq(Vec([p \in 1..Len(comps) |-> QMul(comps[p][f][r], w[p])]))])

\* slice j of post_cov at the end of pass j, acc the slice after the loop
\* over p and mean the new post_mean.col(j)
MASH_cov(acc, mean, report_type) ==
    IF report_type = 4 THEN MatSub(acc, Outer(mean, mean)) ELSE acc

\* column j of the buffers and slice j of post_cov at the end of pass j
MASH_effect(slice, c, w, report_type, R) ==
    [post_mean |-> WeightedSum(c, "mu1", w, R),
     post_var  |-> WeightedSum(c, "diag_mu2", w, R),
     neg_prob  |-> WeightedSum(c, "neg", w, R),
     zero_prob |-> WeightedSum(c, "zero", w, R),
     post_cov  |-> MASH_cov(IF AccumulatesCov(report_type)
                            THEN AccumulateCov(slice, c, w, 1) ELSE slice,
                            WeightedSum(c, "mu1", w, R), report_type)]

\* the R x J matrix whose column j is eff[j][f]
Columns(eff, f) == Trans(Vec([j \in 1..Len(eff) |-> eff[j][f]]))

\* buffers that add the columns of a call to what they hold
MASH_store_added(o, eff) ==
    [o EXCEPT
       !.post_mean = MatAdd(o.post_mean, Columns(eff, "post_mean")),
       !.post_var  = MatSub(MatAdd(o.post_var, Columns(eff, "post_var")),
                            MatSq(MatAdd(o.post_mean,
                                         Columns(eff, "post_mean")))),
       !.neg_prob  = MatAdd(o.neg_prob, Columns(eff, "neg_prob")),
       !.zero_prob = MatAdd(o.zero_prob, Columns(eff, "zero_prob")),
       !.post_cov  = Vec([j \in 1..Len(eff) |-> eff[j].post_cov])]
\* the buffers after the loop over j, and post_var -= pow(post_mean, 2)
MASH_store(o, eff) ==
    [o EXCEPT
       !.post_mean = Columns(eff, "post_mean"),
       !.post_var  = MatSub(Columns(eff, "post_var"),
                            MatSq(Columns(eff, "post_mean"))),
       !.neg_prob  = Columns(eff, "neg_prob"),
       !.zero_prob = Columns(eff, "zero_prob"),
       !.post_cov  = Vec([j \in 1..Len(eff) |-> eff[j].post_cov])]

\* compute_posterior from the locals of the loops
MASH_weigh(o, posterior_weights, report_type, comps) ==
    [o |-> MASH_store(o,
              Vec([j \in 1..n_cols(o.post_mean) |->
                  MASH_effect(o.post_cov[j], comps[j],
                              Col(posterior_weights, j), report_type,
                              n_rows(o.post_mean))])),
     comps |-> comps]

\* compute_posterior left by the exception of the pass (at[1], at[2]),
\* comps the locals of the passes that ran: the passes j before it are
\* complete, and of the pass at[1] the components before at[2] have been
\* added to its slice of post_cov
MASH_thrown(o, posterior_weights, report_type, at, comps) ==
    Throws(StoreTo(o,
               Vec([j \in 1..(at[1] - 1) |->
                   MASH_effect(o.post_cov[j], comps[j],
                               Col(posterior_weights, j), report_type,
                               n_rows(o.post_mean))]),
               IF AccumulatesCov(report_type)
               THEN AccumulateCov(o.post_cov[at[1]], comps[at[1]],
                                  Col(posterior_weights, at[1]), 1)
               ELSE o.post_cov[at[1]]),
           comps, at[3])

\* compute_posterior whose first exception is at (none when at[1] = 0)
MASH_call(o, posterior_weights, report_type, at) ==
    IF at[1] = 0
    THEN Returns(MASH_weigh(o, posterior_weights, report_type,
                            MASH_components(o)))
    ELSE MASH_thrown(o, posterior_weights, report_type, at,
             Vec([j \in 1..n_cols(o.post_mean) |->
                 MASH_passes(o, j,
                     PassesBefore(j, n_slices(o.U_cube), at))]))

\* PosteriorMASH::compute_posterior(posterior_weights, report_type): the
\* engine after the call, with the loop's locals
compute_posterior(o, posterior_weights, report_type) ==
    MASH_call(o, posterior_weights, report_type,
              ThrowOf(MASH_inverses(o)))

\* the two branches of a_mat.is_empty() of compute_posterior_comcov
MASH_comcov_embed(a_mat, m0, U0s) ==
    IF is_empty(a_mat) THEN [mu1_mat |-> m0, U1 |-> U0s]
    ELSE [mu1_mat |-> MatMul(a_mat, m0),
          U1      |-> MatMul(a_mat, MatMul(U0s, Trans(a_mat)))]

\* the columns without the zeroing of the rows with a zero variance
MASH_comcov_columns_unzeroed(e, mean) ==
    Vec([j \in 1..n_cols(e.mu1_mat) |->
        [mu1      |-> Col(e.mu1_mat, j),
         U1       |-> e.U1,
         diag_mu2 |-> VAdd(VSq(Col(e.mu1_mat, j)), Diag(e.U1)),
         neg      |-> pnorm(Col(e.mu1_mat, j), mean, VSqrt(Diag(e.U1))),
         zero     |-> ZeroOf(VSqrt(Diag(e.U1)))]])
\* per effect j, the columns j of mu1_mat, diag_mu2_mat, neg_mat and
\* zero_mat of component p, from e = [mu1_mat, U1]
MASH_comcov_columns(e, mean) ==
    Vec([j \in 1..n_cols(e.mu1_mat) |->
        [mu1      |-> Col(e.mu1_mat, j),
         U1       |-> e.U1,
         diag_mu2 |-> VAdd(VSq(Col(e.mu1_mat, j)), Diag(e.U1)),
         neg      |-> NegOf(pnorm(Col(e.mu1_mat, j), mean, VSqrt(Diag(e.U1))),
                            VSqrt(Diag(e.U1))),
         zero     |-> ZeroOf(VSqrt(Diag(e.U1)))]])

MASH_comcov_scaled(o, Vinv, U0) ==
    MASH_comcov_embed(o.a_mat,
                      MatSchur(get_posterior_mean_mat(o.b_mat, Vinv, U0),
                               SE_get(o.s_obj)),
                      ScaleBoth(U0, Col(SE_get(o.s_obj), 1)))

\* a shared path that reads U0_cube component-major: slice (p - 1) * J + 1
MASH_comcov_U0_strided(o, p, Vinv) ==
    IF is_empty(o.U0_cube) THEN get_posterior_cov(Vinv, o.U_cube[p])
    ELSE o.U0_cube[(p - 1) * n_cols(o.b_mat) + 1]
MASH_comcov_U0(o, p, Vinv) ==
    IF is_empty(o.U0_cube) THEN get_posterior_cov(Vinv, o.U_cube[p])
    ELSE o.U0_cube[p]

\* the body of the loop over p in compute_posterior_comcov: the locals of
\* component p, per effect
MASH_comcov_component(o, p, Vinv) ==
    MASH_comcov_columns(MASH_comcov_scaled(o, Vinv, MASH_comcov_U0(o, p, Vinv)),
                        ZeroVec(n_rows(o.post_mean)))

MASH_comcov_Vinv(o) ==
    IF is_empty(o.Vinv_cube)
    THEN inv_sympd(get_cov(Col(SE_get_original(o.s_obj), 1), o.v_mat, o.l_mat))
    ELSE o.Vinv_cube[1]

MASH_comcov_components(o, Vinv) ==
    Vec([p \in 1..n_slices(o.U_cube) |-> MASH_comcov_component(o, p, Vinv)])

\* X += M.each_row() % w.row(p), column by column, for the matrix M whose
\* column j is c[j][f]
AddWeighted(X, c, f, wrow) ==
    Vec([r \in 1..n_rows(X) |->
        Vec([j \in 1..n_cols(X) |-> QAdd(X[r][j], QMul(c[j][f][r], wrow[j]))])])

\* post_cov.slice(j) += w(p, j) * (U1 + mu1_mat.col(j) * mu1_mat.col(j)')
AddWeightedMu2(cube, c, wrow) ==
    Vec([j \in 1..Len(cube) |-> MatAdd(cube[j], WeightedMu2(wrow[j], c[j]))])

\* the buffers after the passes p, p + 1, ... of the loop
RECURSIVE MASH_comcov_loop(_, _, _, _, _)
MASH_comcov_loop(buf, comps, posterior_weights, report_type, p) ==
    IF p > Len(comps) THEN buf
    ELSE MASH_comcov_loop(
            [buf EXCEPT
               !.post_cov  = IF AccumulatesCov(report_type)
                             THEN AddWeightedMu2(buf.post_cov, comps[p],
                                                 Row(posterior_weights, p))
                             ELSE buf.post_cov,
               !.post_mean = AddWeighted(buf.post_mean, comps[p], "mu1",
                                         Row(posterior_weights, p)),
               !.post_var  = AddWeighted(buf.post_var, comps[p], "diag_mu2",
                                         Row(posterior_weights, p)),
               !.neg_prob  = AddWeighted(buf.neg_prob, comps[p], "neg",
                                         Row(posterior_weights, p)),
               !.zero_prob = AddWeighted(buf.zero_prob, comps[p], "zero",
                                         Row(posterior_weights, p))],
            comps, posterior_weights, report_type, p + 1)

\* post_cov.slice(j) -= post_mean.col(j) * post_mean.col(j)' for every j
SubtractMeans(cube, post_mean) ==
    Vec([j \in 1..Len(cube) |->
        MatSub(cube[j], Outer(Col(post_mean, j), Col(post_mean, j)))])

\* the statements after the loop without post_var -= pow(post_mean, 2)
MASH_comcov_finish_uncentred(acc, report_type) ==
    [acc EXCEPT
       !.post_cov = IF report_type = 4
                    THEN SubtractMeans(acc.post_cov, acc.post_mean)
                    ELSE acc.post_cov]

\* the statements after the loop over p, acc the buffers after the loop
MASH_comcov_finish(acc, report_type) ==
    [acc EXCEPT
       !.post_var = MatSub(acc.post_var, MatSq(acc.post_mean)),
       !.post_cov = IF report_type = 4
                    THEN SubtractMeans(acc.post_cov, acc.post_mean)
                    ELSE acc.post_cov]

\* compute_posterior_comcov from the locals of the loop
MASH_comcov_weigh(o, posterior_weights, report_type, comps) ==
    [o |-> MASH_comcov_finish(
              MASH_comcov_loop(o, comps, posterior_weights, report_type, 1),
              report_type),
     comps |-> Trans(comps)]

\* Vinv and the matrices U0 of compute_posterior_comcov
MASH_comcov_inverses(o, Vinv) ==
    <<InversesOf(Vinv,
          IF IsThrow(Vinv) THEN << >>
          ELSE Vec([p \in 1..n_slices(o.U_cube) |->
                   MASH_comcov_U0(o, p, Vinv)]))>>

\* compute_posterior_comcov left by an exception of text what, comps the
\* locals of the passes of the loop over p that ran: these have been added
\* to the buffers, and the statements after the loop are not reached
MASH_comcov_thrown(o, posterior_weights, report_type, comps, what) ==
    Throws(MASH_comcov_loop(o, comps, posterior_weights, report_type, 1),
           ByEffect(comps, n_cols(o.post_mean)), what)

\* compute_posterior_comcov whose first exception is at (none when
\* at[1] = 0)
MASH_comcov_call(o, posterior_weights, report_type, Vinv, at) ==
    IF at[1] = 0
    THEN Returns(MASH_comcov_weigh(o, posterior_weights, report_type,
                                   MASH_comcov_components(o, Vinv)))
    ELSE MASH_comcov_thrown(o, posterior_weights, report_type,
             Vec([p \in 1..PassesBefore(at[1], n_slices(o.U_cube), at) |->
                     MASH_comcov_component(o, p, Vinv)]),
             at[3])

\* PosteriorMASH::compute_posterior_comcov(posterior_weights, report_type)
compute_posterior_comcov(o, posterior_weights, report_type) ==
    MASH_comcov_call(o, posterior_weights, report_type, MASH_comcov_Vinv(o),
        ThrowOf(MASH_comcov_inverses(o, MASH_comcov_Vinv(o))))

PosteriorMASH_set_vinv(o, value) == [o EXCEPT !.Vinv_cube = value]
PosteriorMASH_set_U0(o, value) == [o EXCEPT !.U0_cube = value]

\* the buffer as it is stored
PosteriorMean_stored(o) == o.post_mean
\* the accessors: the transposed buffers
PosteriorMean(o) == Trans(o.post_mean)
PosteriorSD(o) ==
    Trans(Vec([r \in 1..n_rows(o.post_var) |-> VSqrt(o.post_var[r])]))
PosteriorCov(o) == o.post_cov
NegativeProb(o) == Trans(o.neg_prob)
ZeroProb(o) == Trans(o.zero_prob)

-----------------------------------------------------------------------------
(* class PosteriorASH                                                       *)

\* PosteriorASH::PosteriorASH: the output vectors are sized with set_size and
\* not filled, so they hold whatever the allocation holds (garbage)
PosteriorASH_new(b_vec, s_vec, s_alpha, v, U_vec, garbage) ==
    LET J == Len(b_vec)
    IN  [class       |-> "PosteriorASH",
         b_vec       |-> b_vec,
         s_vec       |-> s_vec,
         s_alpha_vec |-> IF is_empty(s_alpha) THEN Vec([j \in 1..J |-> Q(1)])
                         ELSE s_alpha,
         v           |-> v,
         U_vec       |-> U_vec,
         post_mean   |-> Vec([j \in 1..J |-> garbage]),
         post_var    |-> Vec([j \in 1..J |-> garbage]),
         neg_prob    |-> Vec([j \in 1..J |-> garbage]),
         zero_prob   |-> Vec([j \in 1..J |-> garbage])]

\* column p of neg_mat and zero_mat after the loop over j, which tests
\* U1.at(j) == 0
ASH_neg(neg, U1) ==
    Vec([j \in 1..Len(U1) |-> IF QEq(U1[j], Q(0)) THEN Q(0) ELSE neg[j]])
ASH_zero(U1) ==
    Vec([j \in 1..Len(U1) |-> IF QEq(U1[j], Q(0)) THEN Q(1) ELSE Q(0)])

\* column p of mu2_mat, neg_mat and zero_mat, from e = [mu1, U1]
ASH_columns(e, mean) ==
    [mu1  |-> e.mu1,
     U1   |-> e.U1,
     mu2  |-> VAdd(VSq(e.mu1), e.U1),
     neg  |-> ASH_neg(pnorm(e.mu1, mean, VSqrt(e.U1)), e.U1),
     zero |-> ASH_zero(e.U1)]

\* mu1_mat.col(p) and the rescaled U1, from U1 = U / (vinv * U + 1)
ASH_scaled(o, vinv, U1) ==
    [mu1 |-> VSchur(VSchur(VSchur(U1, vinv), o.b_vec), o.s_alpha_vec),
     U1  |-> VSchur(U1, VSchur(o.s_alpha_vec, o.s_alpha_vec))]

\* the prior variance, not shrunk by the data
ASH_U1_prior(U, vinv) == Vec([j \in 1..Len(vinv) |-> U])

\* U_vec.at(p) / (vinv * U_vec.at(p) + 1.0)
ASH_U1(U, vinv) ==
    Vec([j \in 1..Len(vinv) |-> QDiv(U, QAdd(QMul(vinv[j], U), Q(1)))])

\* the body of the loop over p in PosteriorASH::compute_posterior: column p
\* of mu1_mat, mu2_mat, neg_mat and zero_mat (vectors over the effects j)
ASH_component(o, p, vinv) ==
    ASH_columns(ASH_scaled(o, vinv, ASH_U1(o.U_vec[p], vinv)),
                ZeroVec(Len(o.b_vec)))

\* 1 / (s_vec % s_vec * v)
ASH_vinv(o) ==
    Vec([j \in 1..Len(o.s_vec) |->
        QDiv(Q(1), QMul(QMul(o.s_vec[j], o.s_vec[j]), o.v))])

ASH_components(o, vinv) ==
    Vec([p \in 1..Len(o.U_vec) |-> ASH_component(o, p, vinv)])

\* arma::dot(M.row(j), w.col(j)) for the J x P matrix whose column p is
\* comps[p][f], for every j
ASH_dot(comps, f, posterior_weights, J) ==
    Vec([j \in 1..J |->
        SumSeq(Vec([p \in 1..Len(comps) |->
                      QMul(comps[p][f][j], posterior_weights[p][j])]))])

\* post_var -= pow(post_mean, 2)
ASH_finish(o) ==
    [o EXCEPT !.post_var = VSub(o.post_var, VSq(o.post_mean))]

\* the locals of effect j and component p in the shape of the other engines
ASH_locals(comps, J) ==
    Vec([j \in 1..J |-> Vec([p \in 1..Len(comps) |->
        [mu1      |-> <<comps[p].mu1[j]>>,
         U1       |-> << <<comps[p].U1[j]>> >>,
         diag_mu2 |-> <<comps[p].mu2[j]>>,
         neg      |-> <<comps[p].neg[j]>>,
         zero     |-> <<comps[p].zero[j]>>]])])

\* compute_posterior from the locals of the loop over p
ASH_weigh(o, posterior_weights, comps) ==
    [o |-> ASH_finish(
              [o EXCEPT
                 !.post_mean = ASH_dot(comps, "mu1", posterior_weights,
                                       Len(o.b_vec)),
                 !.post_var  = ASH_dot(comps, "mu2", posterior_weights,
                                       Len(o.b_vec)),
                 !.neg_prob  = ASH_dot(comps, "neg", posterior_weights,
                                       Len(o.b_vec)),
                 !.zero_prob = ASH_dot(comps, "zero", posterior_weights,
                                       Len(o.b_vec))]),
     comps |-> ASH_locals(comps, Len(o.b_vec))]

\* PosteriorASH::compute_posterior(posterior_weights)
ASH_compute_posterior(o, posterior_weights) ==
    Returns(ASH_weigh(o, posterior_weights, ASH_components(o, ASH_vinv(o))))

-----------------------------------------------------------------------------
(* class MVSERMix                                                           *)

\* MVSERMix::MVSERMix: as PosteriorMASH without l_mat and a_mat; prior_scalar
\* is sized with set_size and not filled (garbage)
MVSERMix_new(b_mat, s_mat, s_alpha_mat, s_orig_mat, v_mat, U_cube, garbage, uninitialised) ==
    LET J  == n_cols(b_mat)
        R  == n_rows(b_mat)
        se == IF is_empty(s_mat)
              THEN SE_set_dims(SE_new(uninitialised), R, J)
              ELSE SE_set(SE_new(uninitialised), s_mat, s_alpha_mat)
    IN  [class     |-> "MVSERMix",
         b_mat     |-> b_mat,
         s_obj     |-> SE_set_original(se, s_orig_mat),
         v_mat     |-> v_mat,
         U_cube    |-> U_cube,
         Vinv_cube |-> << >>,
         U0_cube   |-> << >>,
         Uinv_cube |-> << >>,
         post_mean |-> Zeros(R, J),
         post_var  |-> Zeros(R, J),
         post_cov  |-> ZerosCube(R, R, J),
         neg_prob  |-> Zeros(R, J),
         zero_prob |-> Zeros(R, J),
         prior_scalar |-> Vec([p \in 1..n_slices(U_cube) |-> garbage])]

\* column p of diag_mu2_mat, neg_mat and zero_mat, from mu1 and U1
MVSER_columns(mu1, U1, mean) ==
    [mu1      |-> mu1,
     U1       |-> U1,
     diag_mu2 |-> VAdd(VSq(mu1), Diag(U1)),
     neg      |-> NegOf(pnorm(mu1, mean, VSqrt(Diag(U1))), VSqrt(Diag(U1))),
     zero     |-> ZeroOf(VSqrt(Diag(U1)))]

\* mu1_mat.col(p) and U1 of effect j from U0
MVSER_scaled(o, j, Vinv_j, U0) ==
    MVSER_columns(VSchur(get_posterior_mean(Col(o.b_mat, j), Vinv_j, U0),
                         Col(SE_get(o.s_obj), j)),
                  ScaleBoth(U0, Col(SE_get(o.s_obj), j)),
                  ZeroVec(n_rows(o.post_mean)))

MVSER_U0(o, j, p, Vinv_j) ==
    IF is_empty(o.U0_cube) THEN get_posterior_cov(Vinv_j, o.U_cube[p])
    ELSE o.U0_cube[(j - 1) * n_slices(o.U_cube) + p]

\* the body of the loop over p in MVSERMix::compute_posterior, for effect j
MVSER_component(o, j, p, Vinv_j) ==
    MVSER_scaled(o, j, Vinv_j, MVSER_U0(o, j, p, Vinv_j))

MVSER_Vinv(o, j) ==
    IF is_empty(o.Vinv_cube)
    THEN inv_sympd(get_cov2(Col(SE_get_original(o.s_obj), j), o.v_mat))
    ELSE o.Vinv_cube[j]

\* the locals of the passes p = 1..n of the loop over p, for effect j
MVSER_passes(o, j, n) ==
    LET Vinv_j == MVSER_Vinv(o, j)
    IN  Vec([p \in 1..n |-> MVSER_component(o, j, p, Vinv_j)])

MVSER_components(o) ==
    Vec([j \in 1..n_cols(o.post_mean) |->
        MVSER_passes(o, j, n_slices(o.U_cube))])

\* the matrices compute_posterior inverts or reads from its caches: Vinv_j
\* and the matrices U0 of every pass j
MVSER_inverses(o) ==
    Vec([j \in 1..n_cols(o.post_mean) |->
        LET Vinv_j == MVSER_Vinv(o, j)
        IN  InversesOf(Vinv_j,
                IF IsThrow(Vinv_j) THEN << >>
                ELSE Vec([p \in 1..n_slices(o.U_cube) |->
                         MVSER_U0(o, j, p, Vinv_j)]))])

\* mu2_cube.slice(p) after the loop over the effects: the sum over j of
\* posterior_variable_weights(p, j) * mu2_mat, from the zeroed cube
RECURSIVE MVSER_mu2(_, _, _, _)
MVSER_mu2(comps, posterior_variable_weights, p, j) ==
    IF j = 0 THEN Zeros(Len(comps[1][p].mu1), Len(comps[1][p].mu1))
    ELSE MatAdd(MVSER_mu2(comps, posterior_variable_weights, p, j - 1),
                WeightedMu2(posterior_variable_weights[p][j], comps[j][p]))

Trace(M) == SumSeq(Diag(M))

\* the EM update of prior_scalar, made only when Uinv_cube is not empty
MVSER_prior_scalar(o, comps, posterior_variable_weights) ==
    IF is_empty(o.Uinv_cube) THEN o.prior_scalar
    ELSE Vec([p \in 1..n_slices(o.U_cube) |->
            QDiv(Trace(MatMul(o.Uinv_cube[p],
                     MVSER_mu2(comps, posterior_variable_weights, p,
                               n_cols(o.post_mean)))),
                 Q(n_rows(o.post_mean)))])

\* pass j without the subtraction of the outer product from post_cov
MVSER_effect_uncentred(slice, c, w, R) ==
    [post_mean |-> WeightedSum(c, "mu1", w, R),
     post_var  |-> WeightedSum(c, "diag_mu2", w, R),
     neg_prob  |-> WeightedSum(c, "neg", w, R),
     zero_prob |-> WeightedSum(c, "zero", w, R),
     post_cov  |-> AccumulateCov(slice, c, w, 1)]

\* column j of the buffers and slice j of post_cov at the end of pass j
MVSER_effect(slice, c, w, R) ==
    [post_mean |-> WeightedSum(c, "mu1", w, R),
     post_var  |-> WeightedSum(c, "diag_mu2", w, R),
     neg_prob  |-> WeightedSum(c, "neg", w, R),
     zero_prob |-> WeightedSum(c, "zero", w, R),
     post_cov  |-> MatSub(AccumulateCov(slice, c, w, 1),
                          Outer(WeightedSum(c, "mu1", w, R),
                                WeightedSum(c, "mu1", w, R)))]

\* compute_posterior with the EM update accumulated from posterior_weights
MVSER_weigh_swapped(o, posterior_weights, posterior_variable_weights, comps) ==
    [o |-> [MASH_store(o,
               Vec([j \in 1..n_cols(o.post_mean) |->
                   MVSER_effect(o.post_cov[j], comps[j],
                                Col(posterior_weights, j),
                                n_rows(o.post_mean))]))
            EXCEPT !.prior_scalar =
               MVSER_prior_scalar(o, comps, posterior_weights)],
     comps |-> comps]

\* compute_posterior from the locals of the loops
MVSER_weigh(o, posterior_weights, posterior_variable_weights, comps) ==
    [o |-> [MASH_store(o,
               Vec([j \in 1..n_cols(o.post_mean) |->
                   MVSER_effect(o.post_cov[j], comps[j],
                                Col(posterior_weights, j),
                                n_rows(o.post_mean))]))
            EXCEPT !.prior_scalar =
               MVSER_prior_scalar(o, comps, posterior_variable_weights)],
     comps |-> comps]

\* compute_posterior left by the exception of the pass (at[1], at[2]),
\* comps the locals of the passes that ran: the passes j before it are
\* complete, of the pass at[1] the components before at[2] have been added
\* to its slice of post_cov, and prior_scalar is not assigned
MVSER_thrown(o, posterior_weights, at, comps) ==
    Throws(StoreTo(o,
               Vec([j \in 1..(at[1] - 1) |->
                   MVSER_effect(o.post_cov[j], comps[j],
                                Col(posterior_weights, j),
                                n_rows(o.post_mean))]),
               AccumulateCov(o.post_cov[at[1]], comps[at[1]],
                             Col(posterior_weights, at[1]), 1)),
           comps, at[3])

\* compute_posterior whose first exception is at (none when at[1] = 0)
MVSER_call(o, posterior_weights, posterior_variable_weights, at) ==
    IF at[1] = 0
    THEN Returns(MVSER_weigh(o, posterior_weights,
                             posterior_variable_weights, MVSER_components(o)))
    ELSE MVSER_thrown(o, posterior_weights, at,
             Vec([j \in 1..n_cols(o.post_mean) |->
                 MVSER_passes(o, j,
                     PassesBefore(j, n_slices(o.U_cube), at))]))

\* MVSERMix::compute_posterior(posterior_weights, posterior_variable_weights)
MVSER_compute_posterior(o, posterior_weights, posterior_variable_weights) ==
    MVSER_call(o, posterior_weights, posterior_variable_weights,
               ThrowOf(MVSER_inverses(o)))

\* per effect j, the columns j of mu1_mat, diag_mu2_mat, neg_mat and
\* zero_mat of component p
MVSER_comcov_columns(mu1_mat, U1, mean) ==
    Vec([j \in 1..n_cols(mu1_mat) |->
        MVSER_columns(Col(mu1_mat, j), U1, mean)])

\* the body of the loop over p in MVSERMix::compute_posterior_comcov, from U0
MVSER_comcov_scaled(o, Vinv, U0) ==
    MVSER_comcov_columns(
        MatSchur(get_posterior_mean_mat(o.b_mat, Vinv, U0), SE_get(o.s_obj)),
        ScaleBoth(U0, Col(SE_get(o.s_obj), 1)),
        ZeroVec(n_rows(o.post_mean)))

MVSER_comcov_U0(o, p, Vinv) ==
    IF is_empty(o.U0_cube) THEN get_posterior_cov(Vinv, o.U_cube[p])
    ELSE o.U0_cube[p]

MVSER_comcov_component(o, p, Vinv) ==
    MVSER_comcov_scaled(o, Vinv, MVSER_comcov_U0(o, p, Vinv))

MVSER_comcov_Vinv(o) ==
    IF is_empty(o.Vinv_cube)
    THEN inv_sympd(get_cov2(Col(SE_get_original(o.s_obj), 1), o.v_mat))
    ELSE o.Vinv_cube[1]

MVSER_comcov_components(o, Vinv) ==
    Vec([p \in 1..n_slices(o.U_cube) |-> MVSER_comcov_component(o, p, Vinv)])

\* the buffers after the passes p, p + 1, ... of the loop
RECURSIVE MVSER_comcov_loop(_, _, _, _)
MVSER_comcov_loop(buf, comps, posterior_weights, p) ==
    IF p > Len(comps) THEN buf
    ELSE MVSER_comcov_loop(
            [buf EXCEPT
               !.post_cov  = AddWeightedMu2(buf.post_cov, comps[p],
                                            Row(posterior_weights, p)),
               !.post_mean = AddWeighted(buf.post_mean, comps[p], "mu1",
                                         Row(posterior_weights, p)),
               !.post_var  = AddWeighted(buf.post_var, comps[p], "diag_mu2",
                                         Row(posterior_weights, p)),
               !.neg_prob  = AddWeighted(buf.neg_prob, comps[p], "neg",
                                         Row(posterior_weights, p)),
               !.zero_prob = AddWeighted(buf.zero_prob, comps[p], "zero",
                                         Row(posterior_weights, p))],
            comps, posterior_weights, p + 1)

\* the statements after the loop over p, acc the buffers after the loop
MVSER_comcov_finish(o, acc, comps, posterior_variable_weights) ==
    [acc EXCEPT
       !.post_var = MatSub(acc.post_var, MatSq(acc.post_mean)),
       !.post_cov = SubtractMeans(acc.post_cov, acc.post_mean),
       !.prior_scalar =
           MVSER_prior_scalar(o, comps, posterior_variable_weights)]

\* compute_posterior_comcov from the locals of the loop over p (comps is
\* indexed by effect, then component)
MVSER_comcov_weigh(o, posterior_weights, posterior_variable_weights, comps) ==
    [o |-> MVSER_comcov_finish(o,
              MVSER_comcov_loop(o, Trans(comps), posterior_weights, 1),
              comps, posterior_variable_weights),
     comps |-> comps]

\* MVSERMix::compute_posterior_comcov(posterior_weights,
\* posterior_variable_weights)
MVSER_comcov_inverses(o, Vinv) ==
    <<InversesOf(Vinv,
          IF IsThrow(Vinv) THEN << >>
          ELSE Vec([p \in 1..n_slices(o.U_cube) |->
                   MVSER_comcov_U0(o, p, Vinv)]))>>

\* compute_posterior_comcov left by an exception of text what, comps the
\* locals of the passes of the loop over p that ran: these have been added
\* to the buffers, and the statements after the loop are not reached
MVSER_comcov_thrown(o, posterior_weights, comps, what) ==
    Throws(MVSER_comcov_loop(o, comps, posterior_weights, 1),
           ByEffect(comps, n_cols(o.post_mean)), what)

\* compute_posterior_comcov whose first exception is at (none when
\* at[1] = 0)
MVSER_comcov_call(o, posterior_weights, posterior_variable_weights, Vinv, at) ==
    IF at[1] = 0
    THEN Returns(MVSER_comcov_weigh(o, posterior_weights,
             posterior_variable_weights,
             Trans(MVSER_comcov_components(o, Vinv))))
    ELSE MVSER_comcov_thrown(o, posterior_weights,
             Vec([p \in 1..PassesBefore(at[1], n_slices(o.U_cube), at) |->
                     MVSER_comcov_component(o, p, Vinv)]),
             at[3])

MVSER_compute_posterior_comcov(o, posterior_weights, posterior_variable_weights) ==
    MVSER_comcov_call(o, posterior_weights, posterior_variable_weights,
        MVSER_comcov_Vinv(o),
        ThrowOf(MVSER_comcov_inverses(o, MVSER_comcov_Vinv(o))))

MVSERMix_set_Vinv(o, value) == [o EXCEPT !.Vinv_cube = value]
MVSERMix_set_U0(o, value) == [o EXCEPT !.U0_cube = value]
MVSERMix_set_Uinv(o, value) == [o EXCEPT !.Uinv_cube = value]
PriorScalar(o) == o.prior_scalar

-----------------------------------------------------------------------------
(* The inputs of the checked runs                                           *)

\* an integer matrix as a matrix of rationals
QM(M) == Vec([i \in 1..Len(M) |-> Vec([j \in 1..Len(M[i]) |-> Q(M[i][j])])])

\* the R x J matrix whose every column is c
Shared(c, J) == Vec([r \in 1..Len(c) |-> Vec([j \in 1..J |-> Q(c[r])])])

\* the number of method calls made on an engine after its construction,
\* beyond which only the first compute call is still made
MaxCalls == 2

ReportTypes == 1..4

Empty == << >>
Vcorr == << <<Q(1), Frac(1, 2)>>, <<Frac(1, 2), Q(1)>> >>
Lbase == QM(<< <<1, 0>>, <<-1, 1>> >>)
A1 == QM(<< <<1, -1>> >>)
A3 == QM(<< <<1, 0>>, <<0, 1>>, <<1, 1>> >>)
B21 == QM(<< <<1>>, <<0>> >>)
B22 == QM(<< <<1, 0>>, <<-1, 2>> >>)
S12 == Shared(<<1, 2>>, 2)
S21 == Shared(<<2, 1>>, 2)
Smix == QM(<< <<1, 2>>, <<2, 1>> >>)
Uid == Identity(2)
Uzero == Zeros(2, 2)
Udeg == QM(<< <<1, 0>>, <<0, 0>> >>)
Uone == QM(<< <<1, 1>>, <<1, 1>> >>)
\* a matrix that is no covariance matrix: symmetric and indefinite
Uindef == << <<Frac(1, 2), Q(0)>>, <<Q(0), Frac(-1, 2)>> >>
\* an indefinite matrix U with U + I singular
Uminus == << <<Frac(1, 2), Q(0)>>, <<Q(0), Q(-1)>> >>
\* a matrix that is not symmetric: its lower triangle is that of the
\* identity, its upper triangle that of an indefinite matrix
Uupper == QM(<< <<1, 2>>, <<0, 1>> >>)

\* The constructor arguments of the PosteriorMASH engines: the end-to-end
\* scenario of two conditions and one effect; every combination of absent
\* and present SE matrices; the combinations of residual correlation,
\* baseline transform, embedding and prior components under a shared SE;
\* an engine whose prior component is not positive semi-definite; and the
\* engines whose calls throw, for a singular V with a zero and a proper
\* prior component (inv_sympd throws) and for a second prior component U
\* with Vinv_j * U + I singular (inv throws), for
\* both effects under the SE 1 and for the second effect only under Smix
MASHArgs ==
    {<<B21, Ones(2, 1), Empty, Empty, Uid, Empty, Empty, U>> :
        U \in {<<Uid>>, <<Uindef>>}}
    \cup
    {<<B21, Ones(2, 1), Empty, Empty, Uone, Empty, Empty, <<Uzero, Uid>> >>,
     <<B22, Empty, Empty, Empty, Uid, Empty, Empty, <<Uid, Uminus>> >>,
     <<B22, Smix, Empty, Empty, Uid, Empty, Empty, <<Uid, Uminus>> >>}
    \cup
    {<<B22, s, sa, so, Vcorr, Empty, Empty, <<Uid, Udeg>> >> :
        s \in {Empty, S12, Smix}, sa \in {Empty, S21, Smix},
        so \in {Empty, S21}}
    \cup
    {<<B22, S12, sa, Empty, vl[1], vl[2], a, U>> :
        sa \in {Empty, S21}, vl \in {<<Uid, Empty>>, <<Vcorr, Lbase>>},
        a \in {Empty, A1, A3},
        U \in {<<Uid, Uzero>>, <<Udeg, Uone>>}}

\* what an allocation that is not filled may hold
Garbage == {Q(0), Q(-7)}

\* the constructor arguments of the MVSERMix engines, with the garbage of
\* the allocation: two prior components under every combination of SE
\* matrices, an engine of a single prior component, and the engines whose
\* calls throw, for both effects and for the second effect only
MVSERArgs ==
    {<<B22, s, sa, so, Vcorr, U, g>> :
        s \in {Empty, S12, Smix}, sa \in {Empty, S21}, so \in {Empty, S21},
        U \in {<<Uid, Udeg>>, <<Uone, Uzero>>}, g \in Garbage}
    \cup {<<B22, S12, Empty, Empty, Vcorr, <<Uone>>, g>> : g \in Garbage}
    \cup {<<B22, s, Empty, Empty, Uid, <<Uid, Uminus>>, Q(0)>> :
             s \in {Empty, Smix}}

\* the constructor arguments of the PosteriorASH engines, with the garbage
\* of the allocation
ASHArgs ==
    {<<b, s, sa, v, U, g>> :
        b \in {<<Q(1), Q(-2)>>}, s \in {<<Q(1), Q(2)>>},
        sa \in {Empty, <<Q(2), Q(1)>>}, v \in {Q(1), Frac(1, 2)},
        U \in {<<Q(1), Q(0)>>, <<Q(0), Q(4)>>}, g \in Garbage}

\* the P x J posterior weights offered to an engine with P components and J
\* effects: non-negative, each column summing to 1
Weights(P, J) ==
    IF P = 1 THEN {Ones(1, J)}
    ELSE {Vec([p \in 1..2 |-> Vec([j \in 1..J |-> w[p][j]])]) :
              w \in {<< <<Q(1), Frac(1, 2)>>, <<Q(0), Frac(1, 2)>> >>,
                     << <<Frac(1, 4), Q(0)>>, <<Frac(3, 4), Q(1)>> >>}}

\* the cube a caller precomputes for set_vinv / set_Vinv: slice j is the
\* Vinv_j the engine would compute itself
VinvCube(o) ==
    Vec([j \in 1..n_cols(o.b_mat) |->
        IF o.class = "MVSERMix" THEN MVSER_Vinv(o, j) ELSE MASH_Vinv(o, j)])

\* get_posterior_cov(Vinv, U) as a caller computes it from its Vinv, the
\* exception that left the computation of Vinv standing for the result
U0From(Vinv, U) == IF IsThrow(Vinv) THEN Vinv ELSE get_posterior_cov(Vinv, U)

\* the cube a caller precomputes for set_U0: slice (j - 1) * P + p is the U0
\* of effect j and component p
U0Cube(o) ==
    Vec([k \in 1..(n_cols(o.b_mat) * n_slices(o.U_cube)) |->
        U0From(VinvCube(o)[((k - 1) \div n_slices(o.U_cube)) + 1],
               o.U_cube[((k - 1) % n_slices(o.U_cube)) + 1])])

\* the caller could compute every slice of the cube it hands to a setter
Computable(cube) == \A k \in 1..Len(cube) : ~IsThrow(cube[k])

\* the cube offered to set_Uinv: one matrix per prior component
UinvCube(o) ==
    Vec([p \in 1..n_slices(o.U_cube) |->
        IF p = 1 THEN Identity(n_rows(o.b_mat)) ELSE Vcorr])

\* the record of the calls made so far: the SE matrices given to the
\* constructor, the number of calls (n), of compute calls after it and of
\* compute calls left by an exception (thrown), and the last call with its
\* arguments, the locals of the passes of its loops that ran and the text of
\* its exception ("" when it returned)
Constructed(s_mat, s_alpha_mat, s_orig_mat) ==
    [given |-> [s_mat |-> s_mat, s_alpha_mat |-> s_alpha_mat,
                s_orig_mat |-> s_orig_mat],
     n |-> 0, computes |-> 0, op |-> "new", posterior_weights |-> << >>,
     posterior_variable_weights |-> << >>, report_type |-> 0,
     comps |-> << >>, what |-> "", thrown |-> 0]

NoCall == Constructed(<< >>, << >>, << >>)

NoFn == [kind |-> "none"]

-----------------------------------------------------------------------------
(* The engines as a state machine: construct, inject caches, compute        *)

New_PosteriorMASH ==
    \E a \in MASHArgs, uninitialised \in BOOLEAN :
       /\ obj = PosteriorMASH_new(a[1], a[2], a[3], a[4], a[5], a[6], a[7],
                                  a[8], uninitialised)
       /\ call = Constructed(a[2], a[3], a[4])

New_MVSERMix ==
    \E a \in MVSERArgs, uninitialised \in BOOLEAN :
       /\ obj = MVSERMix_new(a[1], a[2], a[3], a[4], a[5], a[6], a[7],
                             uninitialised)
       /\ call = Constructed(a[2], a[3], a[4])

New_PosteriorASH ==
    \E a \in ASHArgs :
       /\ obj = PosteriorASH_new(a[1], a[2], a[3], a[4], a[5], a[6])
       /\ call = Constructed(a[2], a[3], << >>)

Init ==
    /\ New_PosteriorMASH \/ New_MVSERMix \/ New_PosteriorASH
    /\ fn = NoFn

NumComponents(o) ==
    IF o.class = "PosteriorASH" THEN Len(o.U_vec) ELSE n_slices(o.U_cube)
NumEffects(o) ==
    IF o.class = "PosteriorASH" THEN Len(o.b_vec) ELSE n_cols(o.b_mat)

\* a compute call ended with res = [o, comps, what]: it returned, or an
\* exception left it
Called(op, res, W, A, t) ==
    /\ obj' = res.o
    /\ call' = [given |-> call.given, n |-> call.n + 1,
                computes |-> call.computes + 1, op |-> op,
                posterior_weights |-> W, posterior_variable_weights |-> A,
                report_type |-> t, comps |-> res.comps, what |-> res.what,
                thrown |-> call.thrown + (IF res.what = "" THEN 0 ELSE 1)]
    /\ UNCHANGED fn

\* a cache setter returned the engine o
Injected(op, o) ==
    /\ obj' = o
    /\ call' = [call EXCEPT !.n = call.n + 1, !.op = op]
    /\ UNCHANGED fn

\* a compute call is made on every engine whatever caches it was given, and
\* further calls up to MaxCalls calls in all
MayCompute == call.computes = 0 \/ call.n < MaxCalls

MASH_ComputePosterior ==
    /\ obj.class = "PosteriorMASH"
    /\ MayCompute
    /\ \E W \in Weights(NumComponents(obj), NumEffects(obj)), t \in ReportTypes :
          Called("compute_posterior", compute_posterior(obj, W, t), W, << >>, t)

MASH_ComputePosteriorComcov ==
    /\ obj.class = "PosteriorMASH"
    /\ MayCompute
    /\ \E W \in Weights(NumComponents(obj), NumEffects(obj)), t \in ReportTypes :
          Called("compute_posterior_comcov",
                 compute_posterior_comcov(obj, W, t), W, << >>, t)

\* the caches are injected, if at all, between construction and the first
\* compute call, each at most once, by a caller that could compute them
MASH_SetVinv ==
    /\ obj.class = "PosteriorMASH"
    /\ call.computes = 0 /\ is_empty(obj.Vinv_cube)
    /\ Computable(VinvCube(obj))
    /\ Injected("set_vinv", PosteriorMASH_set_vinv(obj, VinvCube(obj)))

MASH_SetU0 ==
    /\ obj.class = "PosteriorMASH"
    /\ call.computes = 0 /\ is_empty(obj.U0_cube)
    /\ Computable(U0Cube(obj))
    /\ Injected("set_U0", PosteriorMASH_set_U0(obj, U0Cube(obj)))

ASH_ComputePosterior ==
    /\ obj.class = "PosteriorASH"
    /\ MayCompute
    /\ \E W \in Weights(NumComponents(obj), NumEffects(obj)) :
          Called("compute_posterior", ASH_compute_posterior(obj, W), W, << >>, 0)

MVSER_ComputePosterior ==
    /\ obj.class = "MVSERMix"
    /\ MayCompute
    /\ \E W \in Weights(NumComponents(obj), NumEffects(obj)) :
       \E A \in Weights(NumComponents(obj), NumEffects(obj)) :
          Called("compute_posterior", MVSER_compute_posterior(obj, W, A), W, A, 0)

MVSER_ComputePosteriorComcov ==
    /\ obj.class = "MVSERMix"
    /\ MayCompute
    /\ \E W \in Weights(NumComponents(obj), NumEffects(obj)) :
       \E A \in Weights(NumComponents(obj), NumEffects(obj)) :
          Called("compute_posterior_comcov",
                 MVSER_compute_posterior_comcov(obj, W, A), W, A, 0)

MVSER_SetVinv ==
    /\ obj.class = "MVSERMix"
    /\ call.computes = 0 /\ is_empty(obj.Vinv_cube)
    /\ Computable(VinvCube(obj))
    /\ Injected("set_Vinv", MVSERMix_set_Vinv(obj, VinvCube(obj)))

MVSER_SetU0 ==
    /\ obj.class = "MVSERMix"
    /\ call.computes = 0 /\ is_empty(obj.U0_cube)
    /\ Computable(U0Cube(obj))
    /\ Injected("set_U0", MVSERMix_set_U0(obj, U0Cube(obj)))

MVSER_SetUinv ==
    /\ obj.class = "MVSERMix"
    /\ call.computes = 0 /\ is_empty(obj.Uinv_cube)
    /\ Injected("set_Uinv", MVSERMix_set_Uinv(obj, UinvCube(obj)))

Next ==
    \/ MASH_ComputePosterior
    \/ MASH_ComputePosteriorComcov
    \/ MASH_SetVinv
    \/ MASH_SetU0
    \/ ASH_ComputePosterior
    \/ MVSER_ComputePosterior
    \/ MVSER_ComputePosteriorComcov
    \/ MVSER_SetVinv
    \/ MVSER_SetU0
    \/ MVSER_SetUinv

Spec == Init /\ [][Next]_vars

-----------------------------------------------------------------------------
(* The free functions as a state machine: one call of dmvnorm, dmvnorm_mat, *)
(* calc_lik or pnorm, whose arguments and result fn records                 *)

NoEngine == [class |-> "none"]

\* a triangular rooti with a positive diagonal
Rooti == << <<Q(2), Q(0)>>, <<Q(-1), Frac(1, 2)>> >>

\* the matrices passed as sigma: symmetric matrices (positive definite,
\* singular and indefinite ones) and matrices that are not symmetric, and
\* for inversed the matrices rooti, with a positive, a zero and a negative
\* diagonal entry
SigmasFor(inversed) ==
    IF inversed THEN {Uid, Rooti, Udeg, Uindef}
    ELSE {Uid, Vcorr, Uzero, Udeg, Uone, Uindef, Uupper, Trans(Uupper)}

Means == {ZeroVec(2), <<Q(1), Q(-1)>>}

Points == {<<Q(0), Q(0)>>, <<Q(1), Q(-1)>>, <<Q(1), Q(2)>>}

\* points at an L1 distance of 3/4 * 1e-6 and of exactly 1e-6 from the
\* mean (0, 0), and of 1/2 * 1e-6 from the mean (1, -1)
NearPoints ==
    {<<Frac(1, 2000000), Frac(-1, 4000000)>>, <<Frac(1, 1000000), Q(0)>>,
     <<Frac(2000001, 2000000), Q(-1)>>}

\* whether the call takes the catch branch; the points within 1e-6 of a mean
\* are offered to that branch only, which does not square them
Fallback(sigma, inversed) == ~inversed /\ ~CholOk(sigma)

PointsFor(sigma, inversed) ==
    IF Fallback(sigma, inversed) THEN Points \cup NearPoints ELSE Points

\* the matrix whose columns are the points c1, c2, c3
Cols3(c1, c2, c3) == Trans(<<c1, c2, c3>>)

MatsFor(sigma, inversed) ==
    {Cols3(<<Q(0), Q(0)>>, <<Q(1), Q(-1)>>, <<Q(1), Q(2)>>)}
    \cup
    (IF Fallback(sigma, inversed)
     THEN {Cols3(<<Frac(1, 2000000), Frac(-1, 4000000)>>,
                 <<Frac(1, 1000000), Q(0)>>,
                 <<Frac(2000001, 2000000), Q(-1)>>)}
     ELSE {})

\* effects whose first column is the zero vector
Bzero == QM(<< <<0, 1>>, <<0, -1>> >>)

InitFn ==
    /\ obj = NoEngine
    /\ call = NoCall
    /\ fn = NoFn

Call_dmvnorm ==
    /\ fn.kind = "none"
    /\ \E inversed \in BOOLEAN, mean \in Means, logd \in BOOLEAN :
       \E sigma \in SigmasFor(inversed) :
       \E x \in PointsFor(sigma, inversed) :
          fn' = [kind |-> "dmvnorm", x |-> x, mean |-> mean, sigma |-> sigma,
                 logd |-> logd, inversed |-> inversed,
                 out |-> dmvnorm(x, mean, sigma, logd, inversed)]
    /\ UNCHANGED <<obj, call>>

Call_dmvnorm_mat ==
    /\ fn.kind = "none"
    /\ \E inversed \in BOOLEAN, mean \in Means, logd \in BOOLEAN :
       \E sigma \in SigmasFor(inversed) :
       \E x \in MatsFor(sigma, inversed) :
          fn' = [kind |-> "dmvnorm_mat", x |-> x, mean |-> mean,
                 sigma |-> sigma, logd |-> logd, inversed |-> inversed,
                 out |-> dmvnorm_mat(x, mean, sigma, logd, inversed)]
    /\ UNCHANGED <<obj, call>>

Call_calc_lik ==
    /\ fn.kind = "none"
    /\ \E b_mat \in {B22, Bzero}, s_mat \in {S12, Smix, Zeros(2, 2)},
          v_mat \in {Uid, Vcorr}, l_mat \in {Empty, Lbase},
          U_cube \in {<<Uid, Udeg>>, <<Uzero, Uone>>}, logd \in BOOLEAN,
          common_cov \in BOOLEAN :
          fn' = [kind |-> "calc_lik", b_mat |-> b_mat, s_mat |-> s_mat,
                 v_mat |-> v_mat, l_mat |-> l_mat, U_cube |-> U_cube,
                 logd |-> logd, common_cov |-> common_cov,
                 out |-> calc_lik(b_mat, s_mat, v_mat, l_mat, U_cube, logd,
                                  common_cov)]
    /\ UNCHANGED <<obj, call>>

\* the tensors of 1 to 5 rooti slices, no two slices of a tensor equal
RootiCubes ==
    {<<Rooti>>, <<Uid, Rooti>>, <<Uid, Rooti, Udeg>>,
     <<Uid, Rooti, Udeg, Uindef>>,
     <<Uid, Rooti, Udeg, Uindef, MatScale(Q(2), Uid)>>}

\* effects of 1, 2 and 3 columns
EffectMats ==
    {B21, B22, Cols3(<<Q(0), Q(0)>>, <<Q(1), Q(-1)>>, <<Q(1), Q(2)>>)}

Call_calc_lik_rooti ==
    /\ fn.kind = "none"
    /\ \E b_mat \in EffectMats, rooti_cube \in RootiCubes, logd \in BOOLEAN,
          common_cov \in BOOLEAN :
          fn' = [kind |-> "calc_lik_rooti", b_mat |-> b_mat,
                 rooti_cube |-> rooti_cube, logd |-> logd,
                 common_cov |-> common_cov,
                 out |-> calc_lik_rooti(b_mat, rooti_cube, logd, common_cov)]
    /\ UNCHANGED <<obj, call>>

\* the arguments of pnorm: points on both sides of the means, and the
\* standard deviations 1, 2 and 1/2
PnormX == {Q(-2), Q(-1), Q(0), Frac(1, 2), Q(1), Q(2), Q(3)}
PnormM == {Q(0), Q(1)}
PnormS == {Sqrt(Q(1)), Sqrt(Q(4)), Sqrt(Frac(1, 4))}

Call_pnorm ==
    /\ fn.kind = "none"
    /\ \E x \in PnormX, m \in PnormM, s \in PnormS, logd \in BOOLEAN,
          lower_tail \in BOOLEAN :
          fn' = [kind |-> "pnorm", x |-> x, m |-> m, s |-> s, logd |-> logd,
                 lower_tail |-> lower_tail,
                 out |-> pnorm1(x, m, s, logd, lower_tail)]
    /\ UNCHANGED <<obj, call>>

NextFn ==
    \/ Call_dmvnorm
    \/ Call_dmvnorm_mat
    \/ Call_calc_lik
    \/ Call_calc_lik_rooti
    \/ Call_pnorm

SpecFn == InitFn /\ [][NextFn]_vars

-----------------------------------------------------------------------------
(* Properties of the engines                                                *)

\* the engine o with its five output buffers as the constructor leaves them:
\* zero-filled
Fresh(o) ==
    [o EXCEPT
       !.post_mean = Zeros(n_rows(o.post_mean), n_cols(o.post_mean)),
       !.post_var  = Zeros(n_rows(o.post_mean), n_cols(o.post_mean)),
       !.neg_prob  = Zeros(n_rows(o.post_mean), n_cols(o.post_mean)),
       !.zero_prob = Zeros(n_rows(o.post_mean), n_cols(o.post_mean)),
       !.post_cov  = ZerosCube(n_rows(o.post_mean), n_rows(o.post_mean),
                               n_cols(o.post_mean))]

\* the five output buffers of an engine
Buffers(o) ==
    <<o.post_mean, o.post_var, o.neg_prob, o.zero_prob, o.post_cov>>

\* the four matrix buffers, without post_cov
MatrixBuffers(o) == <<o.post_mean, o.post_var, o.neg_prob, o.zero_prob>>

\* every compute call made on the engine returned: none was left by an
\* exception
Returned == call.thrown = 0

\* the last call was the first compute call made on a PosteriorMASH, and it
\* returned
FirstMASHCompute ==
    obj.class = "PosteriorMASH" /\ call.computes = 1 /\ Returned

\* the last call was the first compute call made on a PosteriorMASH; it
\* returned or an exception left it
FirstMASHCall == obj.class = "PosteriorMASH" /\ call.computes = 1

\* the number of components of effect j whose pass the last call ran
Reached(j) == Len(call.comps[j])

\* the last call ran the pass of every component of effect j
Finished(j) == Reached(j) = NumComponents(obj)

\* the sum of W[p,j] * (U1_p + mu1_p * mu1_p') over the components p of
\* effect j whose pass the last call ran, from the locals of the call
SecondMoment(j) ==
    Vec([r \in 1..n_rows(obj.post_mean) |->
        Vec([k \in 1..n_rows(obj.post_mean) |->
            SumSeq(Vec([p \in 1..Len(call.comps[j]) |->
                QMul(call.posterior_weights[p][j],
                     QAdd(call.comps[j][p].U1[r][k],
                          QMul(call.comps[j][p].mu1[r],
                               call.comps[j][p].mu1[k])))]))])])

\* the last call subtracted the outer product of the marginal mean from
\* slice j of post_cov: with report type 4, at the end of the pass of effect
\* j on the general path, after the loop over p on the shared path
MeanSubtracted(j) ==
    /\ call.report_type = 4
    /\ IF call.op = "compute_posterior" THEN Finished(j) ELSE call.what = ""

\* the second moment of effect j, less the outer product of the marginal
\* mean where the call subtracted it
PopulatedCov(j) ==
    IF MeanSubtracted(j)
    THEN MatSub(SecondMoment(j),
                Outer(Col(obj.post_mean, j), Col(obj.post_mean, j)))
    ELSE SecondMoment(j)

\* every slice of post_cov is still zero
CovIsZero ==
    obj.post_cov = ZerosCube(n_rows(obj.post_mean), n_rows(obj.post_mean),
                             n_cols(obj.post_mean))

\* every slice of post_cov holds the accumulated sum
CovIsPopulated ==
    \A j \in 1..n_cols(obj.post_mean) : obj.post_cov[j] = PopulatedCov(j)

\* C1 (as amended): on a freshly constructed PosteriorMASH, after one call of
\* compute_posterior or compute_posterior_comcov, whether it returned or an
\* inversion threw out of it, every entry of post_cov is still 0 when
\* report_type is 1 or 3, and when report_type is 2 or 4 slice j holds the
\* sum of W[p,j] * (U1_p + mu1_p * mu1_p') over the components p of effect j
\* the call processed (all of them when it returned, those before the
\* inversion that threw otherwise, none for a singular V), minus the outer
\* product of the marginal mean for report_type 4 where the call reached
\* the subtraction.
C1_ReportTypeGating ==
    FirstMASHCall =>
        /\ call.report_type \in {1, 3} => CovIsZero
        /\ call.report_type \in {2, 4} => CovIsPopulated

\* a first call with report_type 3 returned and left post_cov zero although
\* the second moment of the first effect is not zero
C1_Witness ==
    /\ FirstMASHCall
    /\ call.what = ""
    /\ call.report_type = 3
    /\ CovIsZero
    /\ SecondMoment(1) # Zeros(n_rows(obj.post_mean), n_rows(obj.post_mean))

\* C1 as stated: report_type 1 leaves post_cov zero and every report_type
\* from 2 on (2, 3 or 4) populates it: slice j holds the sum over every
\* component p.
C1_Original ==
    FirstMASHCall =>
        /\ call.report_type = 1 => CovIsZero
        /\ call.report_type >= 2 =>
              /\ \A j \in 1..n_cols(obj.post_mean) : Finished(j)
              /\ CovIsPopulated

\* the last call was the first compute call on the engine of the end-to-end
\* scenario: b = [1, 0], s = [1, 1], V = I, no L, no A, U = I, W = [1]
Scenario ==
    /\ FirstMASHCompute
    /\ obj.b_mat = B21
    /\ SE_get_original(obj.s_obj) = Ones(2, 1)
    /\ SE_get(obj.s_obj) = Ones(2, 1)
    /\ obj.v_mat = Uid
    /\ is_empty(obj.l_mat) /\ is_empty(obj.a_mat)
    /\ obj.U_cube = <<Uid>>
    /\ call.posterior_weights = Ones(1, 1)

\* C2 (as amended): in the end-to-end scenario compute_posterior and
\* compute_posterior_comcov yield the posterior mean [1/2, 0] and the
\* posterior variance [1/2, 1/2].
C2_Scenario ==
    Scenario =>
        /\ obj.post_mean = << <<Frac(1, 2)>>, <<Q(0)>> >>
        /\ obj.post_var = << <<Frac(1, 2)>>, <<Frac(1, 2)>> >>

\* the scenario ran through compute_posterior_comcov and the variance of the
\* second condition is 1/2
C2_Witness ==
    /\ Scenario
    /\ call.op = "compute_posterior_comcov"
    /\ obj.post_var[2][1] = Frac(1, 2)

\* C2 as stated: posterior mean [0.5, 0] and posterior variance [0.5, 1.0].
C2_Original ==
    Scenario =>
        /\ obj.post_mean = << <<Frac(1, 2)>>, <<Q(0)>> >>
        /\ obj.post_var = << <<Frac(1, 2)>>, <<Q(1)>> >>

\* the last call was a compute call on a PosteriorMASH or an MVSERMix, and
\* the compute calls returned
Computed ==
    /\ obj.class \in {"PosteriorMASH", "MVSERMix"}
    /\ call.computes >= 1
    /\ Returned

\* the engine after the operation op on the engine o
EngineAfter(o, op) ==
    IF o.class = "PosteriorMASH"
    THEN (IF op = "compute_posterior"
          THEN compute_posterior(o, call.posterior_weights,
                                 call.report_type).o
          ELSE compute_posterior_comcov(o, call.posterior_weights,
                                        call.report_type).o)
    ELSE (IF op = "compute_posterior"
          THEN MVSER_compute_posterior(o, call.posterior_weights,
                                       call.posterior_variable_weights).o
          ELSE MVSER_compute_posterior_comcov(o, call.posterior_weights,
                                       call.posterior_variable_weights).o)

\* the engine had the last call been the first on it: same constructor
\* inputs, caches, weights and report type
CalledOnce == EngineAfter(Fresh(obj), call.op)

\* the last call was a compute call on a PosteriorMASH or an MVSERMix; it
\* returned or an exception left it
ComputeCall ==
    obj.class \in {"PosteriorMASH", "MVSERMix"} /\ call.computes >= 1

\* an engine constructed anew from the constructor inputs of obj, in storage
\* that holds garbage and uninitialised where the constructor fills nothing
\* in, and given the caches of obj through the setters
Reconstructed(garbage, uninitialised) ==
    IF obj.class = "PosteriorMASH"
    THEN PosteriorMASH_set_U0(
             PosteriorMASH_set_vinv(
                 PosteriorMASH_new(obj.b_mat, call.given.s_mat,
                     call.given.s_alpha_mat, call.given.s_orig_mat,
                     obj.v_mat, obj.l_mat, obj.a_mat, obj.U_cube,
                     uninitialised),
                 obj.Vinv_cube),
             obj.U0_cube)
    ELSE MVSERMix_set_Uinv(
             MVSERMix_set_U0(
                 MVSERMix_set_Vinv(
                     MVSERMix_new(obj.b_mat, call.given.s_mat,
                         call.given.s_alpha_mat, call.given.s_orig_mat,
                         obj.v_mat, obj.U_cube, garbage, uninitialised),
                     obj.Vinv_cube),
                 obj.U0_cube),
             obj.Uinv_cube)

\* what the storage the constructor sizes and does not fill can hold: the
\* prior_scalar of MVSERMix; PosteriorMASH has no such storage
Unfilled == IF obj.class = "MVSERMix" THEN Garbage ELSE {Q(0)}

\* the five buffers are those the last call leaves on every engine
\* constructed anew from the same inputs, whatever its storage held and in
\* whatever order its caches were injected
FromInputsAlone ==
    \A garbage \in Unfilled : \A uninitialised \in BOOLEAN :
        Buffers(obj) =
            Buffers(EngineAfter(Reconstructed(garbage, uninitialised),
                                call.op))

\* column j of the four matrix buffers of the engine o
EffectColumns(o, j) ==
    <<Col(o.post_mean, j), Col(o.post_var, j), Col(o.neg_prob, j),
      Col(o.zero_prob, j)>>

\* the columns of the effects whose pass the last call finished are those
\* of a single call
FinishedAsOnce ==
    LET once == CalledOnce
    IN  \A j \in 1..n_cols(obj.post_mean) :
            Finished(j) => EffectColumns(obj, j) = EffectColumns(once, j)

\* C3 (as amended): for PosteriorMASH and MVSERMix the five output buffers
\* after the first compute call on an engine, whether it returned or an
\* inversion threw out of it, depend only on the constructor inputs, the
\* injected caches and the weights and report_type of the call, and not on
\* what the storage of the engine held or on the order of the injections;
\* after a later call of compute_posterior the columns of post_mean,
\* post_var, neg_prob and zero_prob of the effects whose pass the call
\* finished (every effect when it returned) are still those of a single
\* call, whatever was computed before.
C3_Deterministic ==
    ComputeCall =>
        /\ call.computes = 1 => FromInputsAlone
        /\ (call.computes > 1 /\ call.op = "compute_posterior") =>
              FinishedAsOnce

\* a second compute call, of compute_posterior, that returned: the four
\* matrix buffers are those of a single call and post_cov is not
C3_Witness ==
    /\ ComputeCall
    /\ call.computes = 2
    /\ call.op = "compute_posterior"
    /\ call.what = ""
    /\ FinishedAsOnce
    /\ MatrixBuffers(obj) = MatrixBuffers(CalledOnce)
    /\ obj.post_cov # CalledOnce.post_cov

\* C3 as stated: the five buffers after a compute call do not depend on how
\* many compute calls were made earlier on the engine.
C3_Original == ComputeCall => Buffers(obj) = Buffers(CalledOnce)

\* every column of the matrix M equals its first column
SharedColumns(M) == \A j \in 1..n_cols(M) : Col(M, j) = Col(M, 1)

\* the last call was the first compute call on a PosteriorMASH without
\* injected caches, whose original SE and whose alpha SE have equal columns
SharedSECompute ==
    /\ FirstMASHCompute
    /\ is_empty(obj.Vinv_cube) /\ is_empty(obj.U0_cube)
    /\ SharedColumns(SE_get_original(obj.s_obj))
    /\ SharedColumns(SE_get(obj.s_obj))

\* the result [o, comps] of the path the last call did not take, on a fresh
\* engine with the same inputs, weights and report type
OtherPath ==
    IF call.op = "compute_posterior"
    THEN compute_posterior_comcov(Fresh(obj), call.posterior_weights,
                                  call.report_type)
    ELSE compute_posterior(Fresh(obj), call.posterior_weights,
                           call.report_type)

\* the per-component negative and zero probabilities of comps, by effect and
\* component
ComponentProbs(comps) ==
    Vec([j \in 1..Len(comps) |-> Vec([p \in 1..Len(comps[j]) |->
        <<comps[j][p].neg, comps[j][p].zero>>])])

\* C4: on fresh PosteriorMASH engines with the same inputs, no injected
\* caches, equal columns of the original SE and equal columns of the alpha
\* SE, compute_posterior and compute_posterior_comcov leave the same
\* post_mean, post_var, neg_prob, zero_prob and post_cov for every
\* report_type and weight matrix, and the same per-component negative and
\* zero probabilities.
C4_PathsAgree ==
    SharedSECompute =>
        /\ Buffers(obj) = Buffers(OtherPath.o)
        /\ ComponentProbs(call.comps) = ComponentProbs(OtherPath.comps)

\* the shared path ran on a shared-SE engine and zeroed a whole row: a
\* component has zero probability 1 at a condition, for both effects
C4_Witness ==
    /\ SharedSECompute
    /\ call.op = "compute_posterior_comcov"
    /\ n_cols(obj.post_mean) = 2
    /\ \E p \in 1..Len(call.comps[1]), r \in 1..n_rows(obj.post_mean) :
          \A j \in 1..2 : call.comps[j][p].zero[r] = Q(1)
    /\ \E r \in 1..n_rows(obj.post_mean) : QLt(Q(0), obj.neg_prob[r][1])

\* symmetric positive semi-definite: symmetric with every principal minor
\* non-negative
RECURSIVE Ascending(_)
Ascending(S) ==
    IF S = {} THEN << >>
    ELSE <<CHOOSE x \in S : \A y \in S : x <= y>>
         \o Ascending(S \ {CHOOSE x \in S : \A y \in S : x <= y})
Principal(M, idx) ==
    Vec([i \in 1..Len(idx) |-> Vec([j \in 1..Len(idx) |-> M[idx[i]][idx[j]]])])
IsPSD(M) ==
    /\ M = Trans(M)
    /\ \A S \in (SUBSET (1..n_rows(M))) \ {{}} :
          QLe(Q(0), Det(Principal(M, Ascending(S))))

AllPositive(M) ==
    \A i \in 1..Len(M) : \A j \in 1..Len(M[i]) : QLt(Q(0), M[i][j])

\* non-negative weights whose columns sum to 1
ValidWeights(W) ==
    /\ \A p \in 1..Len(W) : \A j \in 1..Len(W[p]) : QLe(Q(0), W[p][j])
    /\ \A j \in 1..n_cols(W) : SumSeq(Col(W, j)) = Q(1)

\* positive SEs, symmetric positive semi-definite V and U_p
ValidInputs(o) ==
    IF o.class = "PosteriorASH"
    THEN /\ \A j \in 1..Len(o.s_vec) :
              QLt(Q(0), o.s_vec[j]) /\ QLt(Q(0), o.s_alpha_vec[j])
         /\ QLt(Q(0), o.v)
         /\ \A p \in 1..Len(o.U_vec) : QLe(Q(0), o.U_vec[p])
    ELSE /\ AllPositive(o.s_obj.s)
         /\ AllPositive(SE_get(o.s_obj))
         /\ AllPositive(SE_get_original(o.s_obj))
         /\ IsPSD(o.v_mat)
         /\ \A p \in 1..n_slices(o.U_cube) : IsPSD(o.U_cube[p])

\* the entries of a buffer: of a vector of PosteriorASH, of a matrix of the
\* other engines
Entries(o, buf) ==
    IF o.class = "PosteriorASH" THEN {buf[j] : j \in 1..Len(buf)}
    ELSE UNION {{buf[r][j] : j \in 1..Len(buf[r])} : r \in 1..Len(buf)}

IsProbability(x) == QLe(Q(0), x) /\ QLe(x, Q(1))

\* the last call was the first compute call on a fresh engine, with valid
\* inputs and weights; it returned, or the inversion of a singular V threw
\* and left the buffers as the constructor filled them
ValidFirstCompute ==
    /\ call.computes = 1
    /\ ValidInputs(obj)
    /\ ValidWeights(call.posterior_weights)

\* C6: for valid inputs (positive SEs, symmetric PSD V and U_p, non-negative
\* weights whose columns sum to 1), after one compute call on a fresh
\* PosteriorMASH, PosteriorASH or MVSERMix every entry of post_var is >= 0
\* and every entry of neg_prob and of zero_prob lies in [0, 1].
C6_OutputRanges ==
    ValidFirstCompute =>
        /\ \A x \in Entries(obj, obj.post_var) : QLe(Q(0), x)
        /\ \A x \in Entries(obj, obj.neg_prob) : IsProbability(x)
        /\ \A x \in Entries(obj, obj.zero_prob) : IsProbability(x)

\* a first call with valid inputs left a negative probability above 1/2 and
\* a zero probability strictly between 0 and 1
C6_Witness ==
    /\ ValidFirstCompute
    /\ obj.class = "MVSERMix"
    /\ \E x \in Entries(obj, obj.neg_prob) :
          QLt(Frac(1, 2), x) /\ QLt(x, Q(1))
    /\ \E x \in Entries(obj, obj.zero_prob) : QLt(Q(0), x) /\ QLt(x, Q(1))
    /\ \E x \in Entries(obj, obj.post_var) : QLt(Q(0), x)

\* the last call was a compute call, on any engine; it returned or an
\* exception left it
AnyCompute == call.computes >= 1

\* the condition r is degenerate in component p of effect j: the rescaled
\* posterior variance diag(U1)[r] is exactly 0
Degenerate(j, p, r) == QEq(call.comps[j][p].U1[r][r], Q(0))

\* the per-component convention, for every effect, every component whose
\* pass the last call ran and every condition
ComponentConvention ==
    \A j \in 1..Len(call.comps) : \A p \in 1..Len(call.comps[j]) :
    \A r \in 1..Len(call.comps[j][p].zero) :
        /\ Degenerate(j, p, r) =>
              /\ call.comps[j][p].neg[r] = Q(0)
              /\ call.comps[j][p].zero[r] = Q(1)
        /\ ~Degenerate(j, p, r) => call.comps[j][p].zero[r] = Q(0)

\* the sum of W[p,j] over the components p whose pass the last call ran and
\* that are degenerate at r
DegenerateWeight(r, j) ==
    SumSeq(Vec([p \in 1..Len(call.comps[j]) |->
        IF Degenerate(j, p, r) THEN call.posterior_weights[p][j] ELSE Q(0)]))

\* zero_prob[r,j], a vector over the effects in PosteriorASH
ZeroProbAt(r, j) ==
    IF obj.class = "PosteriorASH" THEN obj.zero_prob[j] ELSE obj.zero_prob[r][j]

\* the number of reported conditions: the rows of the buffers, 1 in
\* PosteriorASH
Conditions ==
    IF obj.class = "PosteriorASH" THEN 1 ELSE n_rows(obj.post_mean)

\* the last call wrote the components it computed for effect j into
\* zero_prob: the shared path adds every component as its pass ends, the
\* general path assigns column j at the end of the pass of effect j
Weighed(j) == call.op = "compute_posterior_comcov" \/ Finished(j)

\* zero_prob[r,j] is the weight of the degenerate components, for every
\* condition and every effect the call wrote
ZeroProbIsDegenerateWeight ==
    \A j \in 1..Len(call.comps) : \A r \in 1..Conditions :
        Weighed(j) => ZeroProbAt(r, j) = DegenerateWeight(r, j)

\* the last call is the compute call of the life of an engine (construct,
\* inject caches, compute once, read), or a call of the general path, which
\* assigns zero_prob where a repeated call of the shared path adds to it
AssignedZeroProb == call.computes = 1 \/ call.op = "compute_posterior"

\* the last call computed a component that is degenerate at some condition
ComputedDegenerate ==
    \E j \in 1..Len(call.comps) : \E p \in 1..Len(call.comps[j]) :
    \E r \in 1..Len(call.comps[j][p].zero) : Degenerate(j, p, r)

\* C7: in every engine and on both paths, for every component the call
\* computed, where diag(U1)[r] is exactly 0 the per-component negative
\* probability is 0 and the per-component zero probability is 1, and where
\* it is not 0 the per-component zero probability is 0; no error is raised:
\* on valid inputs every call that computed a degenerate component
\* returned; and after the compute call of an engine zero_prob[r,j] is the
\* sum of W[p,j] over exactly the components p that are degenerate at r.
C7_DegenerateComponent ==
    AnyCompute =>
        /\ ComponentConvention
        /\ (ValidInputs(obj) /\ ComputedDegenerate) => call.what = ""
        /\ AssignedZeroProb => ZeroProbIsDegenerateWeight

\* a first call of the shared path with a degenerate and a non-degenerate
\* component at the same condition, both weighted: zero_prob is the weight
\* of the degenerate one
C7_Witness ==
    /\ AnyCompute
    /\ call.computes = 1
    /\ call.op = "compute_posterior_comcov"
    /\ ValidInputs(obj) /\ ComputedDegenerate /\ call.what = ""
    /\ \E j \in 1..Len(call.comps) : \E r \in 1..Conditions :
       \E p1, p2 \in 1..Len(call.comps[j]) :
          /\ Degenerate(j, p1, r) /\ ~Degenerate(j, p2, r)
          /\ QLt(Q(0), call.posterior_weights[p1][j])
          /\ QLt(Q(0), call.posterior_weights[p2][j])
          /\ ZeroProbAt(r, j) = call.posterior_weights[p1][j]

\* the engine is a PosteriorMASH or an MVSERMix, which hold an SE object
HoldsSE == obj.class \in {"PosteriorMASH", "MVSERMix"}

\* the all-ones matrix of the shape of the effects
OnesLikeB == Ones(n_rows(obj.b_mat), n_cols(obj.b_mat))

\* C9: for every combination of empty and non-empty S, S_alpha and S_orig
\* given to the constructor of PosteriorMASH or MVSERMix, get() returns
\* S_alpha when it was given and all ones when it was not, and
\* get_original() returns S_orig when it was given, otherwise S, an empty S
\* being all ones.
C9_SEDefaults ==
    HoldsSE =>
        /\ SE_get(obj.s_obj) =
              (IF is_empty(call.given.s_alpha_mat) THEN OnesLikeB
               ELSE call.given.s_alpha_mat)
        /\ SE_get_original(obj.s_obj) =
              (IF ~is_empty(call.given.s_orig_mat) THEN call.given.s_orig_mat
               ELSE IF is_empty(call.given.s_mat) THEN OnesLikeB
               ELSE call.given.s_mat)

\* an engine constructed with an empty S and a given S_alpha: get() returns
\* all ones
C9_Witness ==
    /\ HoldsSE
    /\ call.n = 0
    /\ is_empty(call.given.s_mat)
    /\ call.given.s_alpha_mat = S21
    /\ SE_get(obj.s_obj) = OnesLikeB

\* the rows the accessors' matrices are documented to have: one per effect
AccessorRows == n_cols(obj.b_mat)

\* the columns: one per condition, of the embedding when there is one
AccessorCols ==
    IF is_empty(obj.a_mat) THEN n_rows(obj.b_mat) ELSE n_rows(obj.a_mat)

\* the matrix M has the shape rows x cols
HasShape(M, rows, cols) ==
    /\ n_rows(M) = rows
    /\ \A i \in 1..rows : Len(M[i]) = cols

\* the four matrices the accessors return
Accessed ==
    <<PosteriorMean(obj), PosteriorSD(obj), NegativeProb(obj), ZeroProb(obj)>>

\* C10 (as amended): for a PosteriorMASH built from an R x J effect matrix,
\* PosteriorMean(), PosteriorSD(), NegativeProb() and ZeroProb() each return
\* a matrix with J rows and R columns without an embedding and with J rows
\* and Q columns with a Q x R embedding A, entry (j,r) being condition r of
\* effect j, and PosteriorCov() returns a tensor with J slices.
C10_AccessorShapes ==
    obj.class = "PosteriorMASH" =>
        /\ \A k \in 1..4 : HasShape(Accessed[k], AccessorRows, AccessorCols)
        /\ \A j \in 1..AccessorRows : \A r \in 1..AccessorCols :
              /\ PosteriorMean(obj)[j][r] = obj.post_mean[r][j]
              /\ NegativeProb(obj)[j][r] = obj.neg_prob[r][j]
              /\ ZeroProb(obj)[j][r] = obj.zero_prob[r][j]
              /\ PosteriorSD(obj)[j][r] = Sqrt(obj.post_var[r][j])
        /\ n_slices(PosteriorCov(obj)) = AccessorRows

\* after a compute call on an engine of two effects with an embedding of
\* three rows, PosteriorMean() has two rows and three columns, not all zero
C10_Witness ==
    /\ obj.class = "PosteriorMASH"
    /\ call.computes = 1
    /\ n_rows(obj.a_mat) = 3
    /\ HasShape(PosteriorMean(obj), 2, 3)
    /\ PosteriorMean(obj) # Zeros(2, 3)

\* C10 as stated: the accessors' matrices have R (or Q) rows and J columns.
C10_Original ==
    obj.class = "PosteriorMASH" =>
        /\ \A k \in 1..4 : HasShape(Accessed[k], AccessorCols, AccessorRows)
        /\ n_slices(PosteriorCov(obj)) = AccessorRows

-----------------------------------------------------------------------------
(* Properties of the free functions                                         *)

\* the last call was calc_lik with an s_mat whose columns all equal column 0
SharedCalcLik == fn.kind = "calc_lik" /\ SharedColumns(fn.s_mat)

\* calc_lik on the arguments of the last call, by the other branch
OtherBranch ==
    calc_lik(fn.b_mat, fn.s_mat, fn.v_mat, fn.l_mat, fn.U_cube, fn.logd,
             ~fn.common_cov)

\* C5: when every column of s_mat equals column 0, calc_lik with common_cov
\* false and with common_cov true return the same J x P matrix, for every
\* b_mat, v_mat, l_mat, U_cube and both values of logd, the entries of the
\* point-mass fallback included.
C5_CalcLikAgree == SharedCalcLik => fn.out = OtherBranch

\* the shared branch on a zero SE: under U = I the first effect, the zero
\* vector, has the density of the mode, and under the singular U the
\* Cholesky factorisation fails and it gets +infinity, the second effect 0
\* or -infinity
C5_Witness ==
    /\ SharedCalcLik
    /\ fn.common_cov
    /\ fn.b_mat = Bzero
    /\ fn.s_mat = Zeros(2, 2)
    /\ fn.U_cube = <<Uid, Udeg>>
    /\ fn.out[1][1] = Gauss(2, Q(0), Q(1), fn.logd)
    /\ fn.out[1][2] = PosInf
    /\ fn.out[2][2] = (IF fn.logd THEN NegInf ELSE Q(0))

\* the L1 distance sum |x - mean|
L1Distance(x, mean) ==
    SumSeq(Vec([i \in 1..Len(x) |-> QAbs(QSub(x[i], mean[i]))]))

\* the value of the point mass at mean: +infinity strictly within 1e-6 of
\* the mean, otherwise 0 as a density and -infinity as a log-density
PointMass(x, mean, logd) ==
    IF QLt(L1Distance(x, mean), Frac(1, TolDenominator)) THEN PosInf
    ELSE IF logd THEN NegInf ELSE Q(0)

\* C8: when inversed is false and the Cholesky factorisation of sigma fails,
\* dmvnorm and dmvnorm_mat return for each column x +infinity if
\* sum |x - mean| is strictly below 1e-6 (for both values of logd), and
\* otherwise 0 when logd is false and -infinity when it is true; and the
\* i-th output of dmvnorm_mat is dmvnorm of column i, in the fallback and in
\* the normal branch.
C8_SingularFallback ==
    /\ (fn.kind = "dmvnorm" /\ Fallback(fn.sigma, fn.inversed)) =>
           fn.out = PointMass(fn.x, fn.mean, fn.logd)
    /\ fn.kind = "dmvnorm_mat" =>
           \A i \in 1..n_cols(fn.x) :
              /\ fn.out[i] = dmvnorm(Col(fn.x, i), fn.mean, fn.sigma,
                                     fn.logd, fn.inversed)
              /\ Fallback(fn.sigma, fn.inversed) =>
                     fn.out[i] = PointMass(Col(fn.x, i), fn.mean, fn.logd)

\* dmvnorm_mat in the fallback, as a log-density: a column within 1e-6 of
\* the mean gets +infinity, a column at the distance 1e-6 exactly -infinity
C8_Witness ==
    /\ fn.kind = "dmvnorm_mat"
    /\ Fallback(fn.sigma, fn.inversed)
    /\ fn.logd
    /\ QLt(Q(0), L1Distance(Col(fn.x, 1), fn.mean))
    /\ L1Distance(Col(fn.x, 2), fn.mean) = Frac(1, TolDenominator)
    /\ fn.out[1] = PosInf
    /\ fn.out[2] = NegInf

-----------------------------------------------------------------------------
(* The EM update of the prior scalar                                        *)

\* M_p of the last call: the sum over the effects j of
\* posterior_variable_weights[p, j] * (U1 + mu1 * mu1'), entry by entry from
\* the locals of the loops
WeightedSecondMoment(p) ==
    Vec([r \in 1..n_rows(obj.b_mat) |-> Vec([c \in 1..n_rows(obj.b_mat) |->
        SumSeq(Vec([j \in 1..n_cols(obj.b_mat) |->
            QMul(call.posterior_variable_weights[p][j],
                 QAdd(call.comps[j][p].U1[r][c],
                      QMul(call.comps[j][p].mu1[r],
                           call.comps[j][p].mu1[c])))]))])])

\* trace(A * B), entry by entry
TraceOfProduct(A, B) ==
    SumSeq(Vec([r \in 1..Len(A) |->
        SumSeq(Vec([c \in 1..Len(B) |-> QMul(A[r][c], B[c][r])]))]))

UinvInjected ==
    /\ obj.class = "MVSERMix"
    /\ ~is_empty(obj.Uinv_cube)
    /\ call.computes >= 1
    /\ Returned

\* C11: when Uinv has been injected into MVSERMix, after compute_posterior
\* and after compute_posterior_comcov prior_scalar[p] is
\* trace(Uinv_p * M_p) / R for every component p, with M_p the sum over the
\* effects of posterior_variable_weights[p, j] * (U1 + mu1 * mu1'); for a
\* single component with Uinv the identity it is trace(M_1) / R
C11_PriorScalar ==
    UinvInjected =>
        /\ \A p \in 1..n_slices(obj.U_cube) :
              obj.prior_scalar[p] =
                  QDiv(TraceOfProduct(obj.Uinv_cube[p],
                                      WeightedSecondMoment(p)),
                       Q(n_rows(obj.b_mat)))
        /\ (n_slices(obj.U_cube) = 1
               /\ obj.Uinv_cube[1] = Identity(n_rows(obj.b_mat)))
            => obj.prior_scalar[1] =
                  QDiv(Trace(WeightedSecondMoment(1)), Q(n_rows(obj.b_mat)))

\* the update was made on the shared-covariance path with variable weights
\* that differ from the mixture weights and an inverse prior that is not
\* the identity
C11_Witness ==
    /\ UinvInjected
    /\ call.op = "compute_posterior_comcov"
    /\ call.posterior_variable_weights # call.posterior_weights
    /\ obj.Uinv_cube[n_slices(obj.U_cube)] # Identity(n_rows(obj.b_mat))
    /\ QLt(Q(0), obj.prior_scalar[n_slices(obj.U_cube)])
    /\ obj.prior_scalar[n_slices(obj.U_cube)] \notin Garbage

-----------------------------------------------------------------------------
(* The single-effect-regression engine against the multivariate engine      *)

\* the last call was the first compute call made on a MVSERMix, and it
\* returned
FirstMVSERCompute ==
    obj.class = "MVSERMix" /\ call.computes = 1 /\ Returned

\* a fresh PosteriorMASH built from the constructor arguments of the
\* MVSERMix, with empty L and A and the same Vinv and U0 caches
SameInputsMASH ==
    [PosteriorMASH_new(obj.b_mat, call.given.s_mat, call.given.s_alpha_mat,
                       call.given.s_orig_mat, obj.v_mat, Empty, Empty,
                       obj.U_cube, FALSE)
     EXCEPT !.Vinv_cube = obj.Vinv_cube, !.U0_cube = obj.U0_cube]

\* that engine after the operation of the last call with the same weights
\* and report_type 4
SameInputsMASHAfter ==
    IF call.op = "compute_posterior"
    THEN compute_posterior(SameInputsMASH, call.posterior_weights, 4).o
    ELSE compute_posterior_comcov(SameInputsMASH, call.posterior_weights, 4).o

\* C12: for identical b, S, S_alpha, S_orig, V, U and weights W, with empty
\* L and A and the same injected Vinv / U0 caches, a fresh MVSERMix after
\* compute_posterior (resp. compute_posterior_comcov) holds the same
\* post_mean, post_var, neg_prob, zero_prob and post_cov as a fresh
\* PosteriorMASH after compute_posterior(W, 4) (resp.
\* compute_posterior_comcov(W, 4)), whether or not Uinv is injected
C12_SameMoments ==
    FirstMVSERCompute => Buffers(obj) = Buffers(SameInputsMASHAfter)

\* the comparison was made with Uinv and a cache injected, on effects of
\* different original SE, and the covariance compared is not the zero tensor
C12_Witness ==
    /\ FirstMVSERCompute
    /\ ~is_empty(obj.Uinv_cube)
    /\ ~is_empty(obj.U0_cube)
    /\ Col(SE_get_original(obj.s_obj), 1) # Col(SE_get_original(obj.s_obj), 2)
    /\ obj.post_cov = SameInputsMASHAfter.post_cov
    /\ obj.post_cov # ZerosCube(n_rows(obj.b_mat), n_rows(obj.b_mat),
                                n_cols(obj.b_mat))

-----------------------------------------------------------------------------
(* The univariate engine against the multivariate engine with R = 1         *)

ASHComputed == obj.class = "PosteriorASH" /\ call.computes >= 1

\* the vector x as a 1 x J matrix, the empty vector as the empty matrix
AsRow(x) == IF is_empty(x) THEN Empty ELSE <<x>>

\* the PosteriorMASH on the 1 x J inputs of the PosteriorASH: V = [v], the
\* slices [U_p], and empty L, A and S_orig
UnivariateMASH ==
    PosteriorMASH_new(AsRow(obj.b_vec), AsRow(call.given.s_mat),
                      AsRow(call.given.s_alpha_mat), Empty,
                      << <<obj.v>> >>, Empty, Empty,
                      Vec([p \in 1..Len(obj.U_vec) |-> << <<obj.U_vec[p]>> >>]),
                      FALSE)

UnivariateMASHAfter ==
    compute_posterior(UnivariateMASH, call.posterior_weights, 3).o

\* vinv_j = 1 / (s_j^2 * v)
ScalarVinv(j) ==
    QDiv(Q(1), QMul(QMul(obj.s_vec[j], obj.s_vec[j]), obj.v))

\* U1_p = U_p / (vinv_j * U_p + 1)
ScalarU1(p, j) ==
    QDiv(obj.U_vec[p], QAdd(QMul(ScalarVinv(j), obj.U_vec[p]), Q(1)))

\* get_posterior_cov and get_posterior_mean with R = 1 are the scalar
\* formulas
ScalarReduction ==
    \A j \in 1..Len(obj.b_vec) : \A p \in 1..Len(obj.U_vec) :
        /\ get_posterior_cov(<< <<ScalarVinv(j)>> >>, << <<obj.U_vec[p]>> >>)
              = << <<ScalarU1(p, j)>> >>
        /\ get_posterior_mean(<<obj.b_vec[j]>>, << <<ScalarVinv(j)>> >>,
                              << <<ScalarU1(p, j)>> >>)
              = <<QMul(QMul(ScalarU1(p, j), ScalarVinv(j)), obj.b_vec[j])>>

\* C13: for R = 1, PosteriorASH::compute_posterior(W) gives the same
\* posterior mean, variance, negative probability and zero probability per
\* effect as PosteriorMASH::compute_posterior(W, 3) on the 1 x J inputs, and
\* get_posterior_cov / get_posterior_mean with R = 1 reduce to
\* U1_p = U_p / (vinv_j * U_p + 1) and mu1 = U1_p * vinv_j * b_j with
\* vinv_j = 1 / (s_j^2 * v)
C13_UnivariateReduction ==
    ASHComputed =>
        /\ <<obj.post_mean>> = UnivariateMASHAfter.post_mean
        /\ <<obj.post_var>>  = UnivariateMASHAfter.post_var
        /\ <<obj.neg_prob>>  = UnivariateMASHAfter.neg_prob
        /\ <<obj.zero_prob>> = UnivariateMASHAfter.zero_prob
        /\ ScalarReduction

\* the comparison was made with a rescaling SE, a residual variance that is
\* not 1 and weights that mix a degenerate and a proper component
C13_Witness ==
    /\ ASHComputed
    /\ ~is_empty(call.given.s_alpha_mat)
    /\ obj.v # Q(1)
    /\ <<obj.post_var>> = UnivariateMASHAfter.post_var
    /\ \E j \in 1..Len(obj.b_vec) :
          /\ QLt(Q(0), obj.zero_prob[j]) /\ QLt(obj.zero_prob[j], Q(1))
          /\ QLt(Q(0), obj.neg_prob[j])
          /\ QLt(Q(0), obj.post_var[j])

-----------------------------------------------------------------------------
(* A prior component that is zero                                           *)

\* prior component p is the zero matrix, or the scalar 0 in PosteriorASH
ZeroPrior(p) ==
    IF obj.class = "PosteriorASH" THEN QEq(obj.U_vec[p], Q(0))
    ELSE obj.U_cube[p] = Zeros(n_rows(obj.b_mat), n_rows(obj.b_mat))

\* no U0 cache is injected (PosteriorASH has none)
NoU0Cache == obj.class = "PosteriorASH" \/ is_empty(obj.U0_cube)

\* the locals of component p for effect j: mu1 is the zero vector, U1 the
\* zero matrix, the zero probability 1 and the negative probability 0 in
\* every condition
ZeroComponent(j, p) ==
    LET c == call.comps[j][p]
    IN  /\ c.mu1 = ZeroVec(Len(c.mu1))
        /\ c.U1 = Zeros(Len(c.mu1), Len(c.mu1))
        /\ c.zero = Vec([r \in 1..Len(c.mu1) |-> Q(1)])
        /\ c.neg = ZeroVec(Len(c.mu1))

\* all the weight of effect j is on component p
AllWeightOn(j, p) ==
    \A q \in 1..NumComponents(obj) :
        call.posterior_weights[q][j] = (IF q = p THEN Q(1) ELSE Q(0))

\* column j of an output buffer, one entry per reported condition
OutputColumn(buf, j) ==
    IF obj.class = "PosteriorASH" THEN <<buf[j]>> ELSE Col(buf, j)

\* post_mean = 0, post_var = 0, neg_prob = 0 and zero_prob = 1 for effect j
ZeroOutputs(j) ==
    LET Q0 == ZeroVec(Conditions)
    IN  /\ OutputColumn(obj.post_mean, j) = Q0
        /\ OutputColumn(obj.post_var, j) = Q0
        /\ OutputColumn(obj.neg_prob, j) = Q0
        /\ OutputColumn(obj.zero_prob, j) =
              Vec([r \in 1..Len(Q0) |-> Q(1)])

\* the last call was the compute call of the life of an engine (construct,
\* inject caches, compute once, read) without a U0 cache
FirstUncachedCall == call.computes = 1 /\ NoU0Cache

\* C14: if prior component p is zero and no U0 cache is injected, then for
\* every effect its mu1 is the zero vector and its U1 the zero matrix, its
\* per-component zero probability is 1 and its negative probability 0 in
\* every condition; and an effect with all its weight on p has
\* post_mean = 0, post_var = 0, neg_prob = 0 and zero_prob = 1.
C14_DegeneratePrior ==
    FirstUncachedCall =>
        \A j \in 1..NumEffects(obj) : \A p \in 1..NumComponents(obj) :
            ZeroPrior(p) =>
                /\ Reached(j) >= p
                /\ ZeroComponent(j, p)
                /\ AllWeightOn(j, p) => ZeroOutputs(j)

\* the compute call on a PosteriorMASH with a singular V, a zero prior
\* component and all the weight of the effect on it: inv_sympd threw before
\* the pass of any component, and zero_prob is 0
C14_Witness ==
    /\ FirstUncachedCall
    /\ obj.class = "PosteriorMASH"
    /\ IsPSD(obj.v_mat) /\ QEq(Det(obj.v_mat), Q(0))
    /\ call.what = "inv_sympd(): matrix is singular or not positive definite"
    /\ \E p \in 1..NumComponents(obj) :
          /\ ZeroPrior(p) /\ AllWeightOn(1, p)
          /\ Reached(1) = 0
          /\ OutputColumn(obj.zero_prob, 1) = ZeroVec(Conditions)

-----------------------------------------------------------------------------
(* Injected caches                                                          *)

\* slice j of the injected Vinv tensor is the inverse of
\* get_cov(S_orig[:, j], V, L)
VinvAsSpecified ==
    \A j \in 1..n_cols(obj.b_mat) :
        MatMul(obj.Vinv_cube[j],
               get_cov(Col(SE_get_original(obj.s_obj), j), obj.v_mat,
                       obj.l_mat))
          = Identity(n_rows(obj.b_mat))

\* slice j * P + p (from 0) of the injected U0 tensor is
\* get_posterior_cov(Vinv_j, U_p)
U0AsSpecified ==
    \A j \in 1..n_cols(obj.b_mat) : \A p \in 1..n_slices(obj.U_cube) :
        obj.U0_cube[(j - 1) * n_slices(obj.U_cube) + p]
          = get_posterior_cov(
                inv_sympd(get_cov(Col(SE_get_original(obj.s_obj), j),
                                  obj.v_mat, obj.l_mat)),
                obj.U_cube[p])

\* the last call was the first compute call on a PosteriorMASH with an
\* injected cache, every injected cache being the tensor described
CachedCompute ==
    /\ FirstMASHCompute
    /\ ~is_empty(obj.Vinv_cube) \/ ~is_empty(obj.U0_cube)
    /\ ~is_empty(obj.Vinv_cube) => VinvAsSpecified
    /\ ~is_empty(obj.U0_cube) => U0AsSpecified

\* the engine without its caches
Uncached(o) == [o EXCEPT !.Vinv_cube = Empty, !.U0_cube = Empty]

NaNMatrix(R) == Fill(R, R, NaN)

\* the engine whose caches keep slice 0 of Vinv and the slices 0..P-1 of U0,
\* every other slice being unusable
FirstSlicesOnly(o) ==
    [o EXCEPT
       !.Vinv_cube = Vec([j \in 1..n_slices(o.Vinv_cube) |->
                        IF j = 1 THEN o.Vinv_cube[j]
                        ELSE NaNMatrix(n_rows(o.b_mat))]),
       !.U0_cube = Vec([k \in 1..n_slices(o.U0_cube) |->
                      IF k <= n_slices(o.U_cube) THEN o.U0_cube[k]
                      ELSE NaNMatrix(n_rows(o.b_mat))])]

\* C15: if set_vinv is given the tensor whose slice j is the inverse of
\* get_cov(S_orig[:, j], V, L) and set_U0 the tensor whose slice j * P + p is
\* get_posterior_cov(Vinv_j, U_p), compute_posterior produces the same
\* outputs as on an engine with no caches injected; compute_posterior_comcov
\* reads only Vinv slice 0 and the U0 slices p and matches the uncached
\* result
C15_TransparentCaches ==
    CachedCompute =>
        /\ Buffers(obj) = Buffers(EngineAfter(Uncached(Fresh(obj)), call.op))
        /\ call.op = "compute_posterior_comcov" =>
              Buffers(obj) =
                  Buffers(EngineAfter(FirstSlicesOnly(Fresh(obj)), call.op))

\* the shared path ran with both caches injected on effects whose original
\* SE differ, so that the slices of the second effect are not those of the
\* first, and populated post_cov
C15_Witness ==
    /\ CachedCompute
    /\ ~is_empty(obj.Vinv_cube) /\ ~is_empty(obj.U0_cube)
    /\ call.op = "compute_posterior_comcov"
    /\ AccumulatesCov(call.report_type)
    /\ n_cols(obj.b_mat) = 2 /\ n_slices(obj.U_cube) = 2
    /\ obj.Vinv_cube[2] # obj.Vinv_cube[1]
    /\ obj.U0_cube[n_slices(obj.U_cube) + 1] # obj.U0_cube[1]
    /\ obj.U0_cube[2] # obj.U0_cube[1]
    /\ Buffers(obj) = Buffers(EngineAfter(Uncached(Fresh(obj)), call.op))

-----------------------------------------------------------------------------
(* The law of total variance and covariance                                 *)

\* the last call was the first compute call on a PosteriorMASH or MVSERMix
FirstCompute == Computed /\ call.computes = 1

\* the call centres post_cov: MVSERMix always, PosteriorMASH with
\* report_type 4
Centred == obj.class = "MVSERMix" \/ call.report_type = 4

\* post_var[:, j] is the weighted second moment of the conditions less the
\* square of the marginal mean
TotalVariance(j) ==
    Col(obj.post_var, j) =
        VSub(Diag(SecondMoment(j)), VSq(Col(obj.post_mean, j)))

\* post_cov[j] is the weighted second moment less the outer product of the
\* marginal mean, and its diagonal is post_var[:, j]
TotalCovariance(j) ==
    /\ obj.post_cov[j] =
          MatSub(SecondMoment(j),
                 Outer(Col(obj.post_mean, j), Col(obj.post_mean, j)))
    /\ Diag(obj.post_cov[j]) = Col(obj.post_var, j)

\* C16: after one compute call on a fresh PosteriorMASH, post_var[:, j] is
\* (sum_p W[p,j] * (mu1_p^2 + diag(U1_p))) - post_mean[:, j]^2 for every
\* report_type; with report_type 4, post_cov[j] is
\* (sum_p W[p,j] * (U1_p + mu1_p * mu1_p')) - post_mean[:, j] * post_mean[:, j]'
\* and its diagonal equals post_var[:, j]; with report_type 2, post_cov[j]
\* is the uncentred sum; the centred identity holds for MVSERMix on both
\* paths
C16_TotalVariance ==
    FirstCompute =>
        \A j \in 1..n_cols(obj.post_mean) :
            /\ TotalVariance(j)
            /\ Centred => TotalCovariance(j)
            /\ (obj.class = "PosteriorMASH" /\ call.report_type = 2)
                 => obj.post_cov[j] = SecondMoment(j)

\* a first call of the shared path with report_type 4 on an engine with an
\* embedding: an effect with a non-zero marginal mean whose two components
\* are both weighted, a covariance with a non-zero off-diagonal entry and
\* the diagonal equal to post_var
C16_Witness ==
    /\ FirstCompute
    /\ obj.class = "PosteriorMASH" /\ call.report_type = 4
    /\ call.op = "compute_posterior_comcov"
    /\ n_rows(obj.post_mean) = 3
    /\ \E j \in 1..n_cols(obj.post_mean) :
          /\ QLt(Q(0), call.posterior_weights[1][j])
          /\ QLt(Q(0), call.posterior_weights[2][j])
          /\ ~QEq(obj.post_mean[1][j], Q(0))
          /\ ~QEq(obj.post_cov[j][1][3], Q(0))
          /\ QLt(Q(0), obj.post_var[1][j])
          /\ TotalCovariance(j)

-----------------------------------------------------------------------------
(* The separation of the SE channels                                        *)

\* the engine of the same class, inputs and caches built with the SE
\* matrices s_mat, s_alpha_mat and s_orig_mat
Rebuilt(s_mat, s_alpha_mat, s_orig_mat) ==
    IF obj.class = "PosteriorMASH"
    THEN [PosteriorMASH_new(obj.b_mat, s_mat, s_alpha_mat, s_orig_mat,
                            obj.v_mat, obj.l_mat, obj.a_mat, obj.U_cube,
                            FALSE)
          EXCEPT !.Vinv_cube = obj.Vinv_cube, !.U0_cube = obj.U0_cube]
    ELSE [MVSERMix_new(obj.b_mat, s_mat, s_alpha_mat, s_orig_mat,
                       obj.v_mat, obj.U_cube, Q(0), FALSE)
          EXCEPT !.Vinv_cube = obj.Vinv_cube, !.U0_cube = obj.U0_cube,
                 !.Uinv_cube = obj.Uinv_cube]

\* the SE matrices an engine of two conditions and two effects may be given
OtherSE == {S12, S21, Smix}

\* the outputs of an engine: the five buffers, and prior_scalar where the
\* call assigns it
Outputs(o) ==
    IF o.class = "MVSERMix" /\ ~is_empty(o.Uinv_cube)
    THEN <<Buffers(o), o.prior_scalar>>
    ELSE <<Buffers(o)>>

\* the outputs of the last call on the engine built with the SE s_mat in
\* place of S
OutputsWithS(s_mat) ==
    Outputs(EngineAfter(Rebuilt(s_mat, call.given.s_alpha_mat,
                                call.given.s_orig_mat), call.op))

\* the likelihood precisions and the unscaled posterior covariances an
\* engine computes: Vinv of the shared path, and Vinv_j and U0 for every
\* effect and component of the general path
Precisions(o) ==
    IF o.class = "PosteriorMASH"
    THEN <<MASH_comcov_Vinv(o),
           Vec([j \in 1..n_cols(o.b_mat) |-> MASH_Vinv(o, j)]),
           Vec([j \in 1..n_cols(o.b_mat) |->
               Vec([p \in 1..n_slices(o.U_cube) |->
                   MASH_U0(o, j, p, MASH_Vinv(o, j))])])>>
    ELSE <<MVSER_comcov_Vinv(o),
           Vec([j \in 1..n_cols(o.b_mat) |-> MVSER_Vinv(o, j)]),
           Vec([j \in 1..n_cols(o.b_mat) |->
               Vec([p \in 1..n_slices(o.U_cube) |->
                   get_posterior_cov(MVSER_Vinv(o, j), o.U_cube[p])])])>>

\* those of the engine built with the alpha SE s_alpha_mat, nothing injected
PrecisionsWithAlpha(s_alpha_mat) ==
    Precisions(Uncached(Rebuilt(call.given.s_mat, s_alpha_mat,
                                call.given.s_orig_mat)))

\* the engine was given a non-empty S and a non-empty S_orig
GivenSAndOriginal ==
    /\ ~is_empty(call.given.s_mat)
    /\ ~is_empty(call.given.s_orig_mat)

TwoByTwo == n_rows(obj.b_mat) = 2 /\ n_cols(obj.b_mat) = 2

\* C19: two PosteriorMASH (or MVSERMix) engines that differ only in a
\* non-empty S while sharing the same non-empty S_orig and S_alpha give
\* identical outputs of compute_posterior and compute_posterior_comcov, and
\* two engines differing only in S_alpha have the same Vinv and unscaled U0
C19_SEChannels ==
    (FirstCompute /\ TwoByTwo) =>
        /\ GivenSAndOriginal =>
              \A s_mat \in OtherSE : OutputsWithS(s_mat) = Outputs(obj)
        /\ \A s_alpha_mat \in OtherSE \cup {Empty} :
              PrecisionsWithAlpha(s_alpha_mat) = Precisions(Uncached(obj))

\* the engine was given S, S_alpha and S_orig, all different; another S
\* leaves the outputs as they are, although without S_orig it would change
\* them, and another S_alpha changes the outputs
C19_Witness ==
    /\ FirstCompute /\ TwoByTwo
    /\ GivenSAndOriginal
    /\ ~is_empty(call.given.s_alpha_mat)
    /\ call.given.s_mat # call.given.s_orig_mat
    /\ call.given.s_mat # call.given.s_alpha_mat
    /\ call.given.s_orig_mat # call.given.s_alpha_mat
    /\ \A s_mat \in OtherSE : OutputsWithS(s_mat) = Outputs(obj)
    /\ Outputs(EngineAfter(Rebuilt(call.given.s_mat,
                                   call.given.s_alpha_mat, Empty), call.op))
         # Outputs(obj)
    /\ \E s_alpha_mat \in OtherSE :
          Outputs(EngineAfter(Rebuilt(call.given.s_mat, s_alpha_mat,
                                      call.given.s_orig_mat), call.op))
            # Outputs(obj)

-----------------------------------------------------------------------------
(* pnorm                                                                    *)

PnormCalled == fn.kind = "pnorm"

\* pnorm(x2, m, s) of the call with x2 in place of x, without the flags
LowerTailAt(x2) == pnorm1(x2, fn.m, fn.s, FALSE, TRUE)

\* the value is a lower-tail probability of N(m, s^2): it does not decrease
\* when x grows, it is 1/2 at x = m and more than 1/2 for x > m
IsLowerTail ==
    /\ \A x2 \in PnormX :
          QLe(fn.x, x2) => QLe(LowerTailAt(fn.x), LowerTailAt(x2))
    /\ QEq(fn.x, fn.m) => LowerTailAt(fn.x) = Frac(1, 2)
    /\ QLt(fn.m, fn.x) => QLt(Frac(1, 2), LowerTailAt(fn.x))

\* the result follows the flags: the value itself, 1 minus it, or the
\* logarithm of either
FollowsFlags ==
    fn.out =
        (IF fn.logd
         THEN Log(IF fn.lower_tail THEN LowerTailAt(fn.x)
                  ELSE QSub(Q(1), LowerTailAt(fn.x)))
         ELSE IF fn.lower_tail THEN LowerTailAt(fn.x)
         ELSE QSub(Q(1), LowerTailAt(fn.x)))

\* C17: pnorm(x, m, s, logd, lower_tail) is the normal CDF for all four flag
\* combinations: with lower_tail = true and logd = false it returns the
\* lower-tail probability P(X <= x) for X ~ N(m, s^2), non-decreasing in x,
\* 0.5 at x = m and more than 0.5 for x > m; with lower_tail = false it
\* returns 1 minus that value; with logd = true the logarithm of the
\* corresponding non-log result
C17_NormalCDF == PnormCalled => IsLowerTail /\ FollowsFlags

\* pnorm was called with the default flags at a point above the mean and
\* returned less than 1/2: the probability of the upper tail
C17_Witness ==
    /\ PnormCalled
    /\ fn.lower_tail /\ ~fn.logd
    /\ QLt(fn.m, fn.x)
    /\ QLt(Q(0), fn.out) /\ QLt(fn.out, Frac(1, 2))
    /\ fn.out = QSub(Q(1), LowerTailAt(QSub(QAdd(fn.m, fn.m), fn.x)))

-----------------------------------------------------------------------------
(* calc_lik with the whitening matrices precomputed                         *)

RootiCalled == fn.kind = "calc_lik_rooti"

\* the number of components the call is to find: n in shared mode, n / J in
\* general mode
ComponentsOf ==
    IF fn.common_cov THEN n_slices(fn.rooti_cube)
    ELSE n_slices(fn.rooti_cube) \div n_cols(fn.b_mat)

\* the slice (from 0) behind the entry (j, p) (from 0): j * P + p in general
\* mode, p in shared mode
SliceOf(j, p) == IF fn.common_cov THEN p ELSE j * ComponentsOf + p

\* the result is J x P
IsJByP ==
    /\ Len(fn.out.lik) = n_cols(fn.b_mat)
    /\ \A j \in 1..n_cols(fn.b_mat) : Len(fn.out.lik[j]) = ComponentsOf

\* in general mode the slices 0..J*P-1 are read once each in increasing
\* order, and in either mode no slice index is n or more
ReadsInOrder ==
    /\ ~fn.common_cov =>
          fn.out.reads =
              Vec([i \in 1..(n_cols(fn.b_mat) * ComponentsOf) |-> i - 1])
    /\ \A i \in 1..Len(fn.out.reads) :
          fn.out.reads[i] < n_slices(fn.rooti_cube)

\* the entry (j, p) is the density of effect j under the slice of (j, p)
EntriesBySlice ==
    \A j \in 0..(n_cols(fn.b_mat) - 1) : \A p \in 0..(ComponentsOf - 1) :
        fn.out.lik[j + 1][p + 1] =
            GaussRooti(Col(fn.b_mat, j + 1),
                       fn.rooti_cube[SliceOf(j, p) + 1], fn.logd)

\* C18: with a rooti tensor of n slices and J effects, in general mode P is
\* n / J, the result is J x P, entry (j, p) is evaluated with slice
\* j * P + p, each slice index 0..J*P-1 is read exactly once in increasing
\* order and no slice index >= n is read; in shared mode P = n and column p
\* is evaluated with slice p; no Cholesky factorisation is performed in
\* either mode
C18_RootiIndexing ==
    RootiCalled =>
        /\ IsJByP
        /\ ReadsInOrder
        /\ EntriesBySlice
        /\ fn.out.chol = 0

\* a call in general mode with 5 slices and 2 effects: P = 2, the slices
\* 0..3 read and the last one left, the entry of the second effect and
\* first component under slice 2
C18_Witness ==
    /\ RootiCalled
    /\ ~fn.common_cov
    /\ n_slices(fn.rooti_cube) = 5 /\ n_cols(fn.b_mat) = 2
    /\ ComponentsOf = 2
    /\ fn.out.reads = <<0, 1, 2, 3>>
    /\ fn.out.lik[2][1] =
          GaussRooti(Col(fn.b_mat, 2), fn.rooti_cube[3], fn.logd)
    /\ fn.out.lik[2][1] #
          GaussRooti(Col(fn.b_mat, 2), fn.rooti_cube[2], fn.logd)

=============================================================================
